---- MODULE Spec2Model ----
(***************************************************************************)
(* Model of the Q4 numerical core: projector learning, quadrant split,     *)
(* energy accounting (q4/operator.py), adaptive SVD fitting, projection    *)
(* and model persistence (q4/svd_ops.py).                                  *)
(*                                                                         *)
(* Arithmetic is exact.  A matrix is a record [r, c, q, e]: r rows, c      *)
(* columns, integer numerators e[i, j] and one positive denominator q, so  *)
(* the entry (i, j) is e[i, j] / q.  Observation values are integer        *)
(* multiples of a fixed-point unit of 1e-6; projector entries are plain    *)
(* numbers.  Rounding of float64 is not modelled.                          *)
(***************************************************************************)
EXTENDS Integers, Sequences, FiniteSets, TLC

VARIABLES
    X,          \* observation matrix handed to the projector pipeline
    labels,     \* class label per row, or NoLabels (labels=None)
    rank,       \* the argument r of learn_projectors_linear
    pc,         \* position of the projector pipeline
    proj,       \* the pair (Ps, Pv) returned by learn_projectors_linear
    quad,       \* the object returned by four_quadrants
    energy,     \* the value returned by energy_split
    model,      \* an SVDModel in memory
    model0,     \* that model as it was when save was called
    fs,         \* the model directory: file name -> content
    savePc,     \* position of SVDModel.save
    loaded,     \* result of the last SVDModel.load
    Vin,        \* the array handed to project
    Zout,       \* what project returned for it
    fitIn,      \* arguments of a fit_svd call
    fitOut,     \* what that call produced
    Zq,         \* the projected matrix handed to compute_qstudy_vectors
    feats,      \* the feature record it returned
    Vn,         \* the matrix a fit is followed on, value by value
    fitted,     \* components and explained variances of that fit
    calls,      \* the fit_svd calls in progress, one per caller
    ests,       \* the estimator objects those calls created
    run,        \* a run of the Fargate processor
    orch        \* an invocation of the orchestrator

projVars  == <<X, labels, rank, pc, proj, quad, energy>>
storeVars == <<model, model0, fs, savePc, loaded, Vin, Zout>>
fitVars   == <<fitIn, fitOut>>
extVars   == <<Zq, feats, Vn, fitted, calls, ests, run, orch>>
vars      == <<projVars, storeVars, fitVars, extVars>>

-----------------------------------------------------------------------------
(* Bounds of the model *)

\* observation values are Scale * pattern entry, Scale in 1..MaxScale
MaxScale == 2
\* largest rank argument tried
MaxRank == 3
\* singular vectors are the unit vectors w / UnitDen with integer w
UnitDen == 5

\* shapes (n, d) of observation matrices
Shapes == {<<2, 1>>, <<1, 2>>, <<2, 2>>, <<3, 2>>, <<2, 3>>}
\* pattern rows of observation matrices, per width d (fixed-point units)
RowVals ==
    [d \in {s[2] : s \in Shapes} |->
        IF d = 1 THEN {<<0>>, <<3>>, <<-4>>}
        ELSE IF d = 2
        THEN {<<0, 0>>, <<3, -4>>, <<-4, 0>>, <<-3, 4>>, <<3, 3>>}
        ELSE {<<0, 0, 0>>, <<3, -4, 0>>, <<0, -4, 0>>, <<3, 0, 3>>}]
\* shapes with no rows or no columns
EmptyShapes == {<<0, 0>>, <<0, 1>>, <<0, 2>>, <<0, 3>>, <<1, 0>>, <<2, 0>>}
\* shapes of the matrices whose entries are NaN or infinite
NonFiniteShapes == {<<1, 2>>, <<2, 2>>}
\* class labels
Classes == {0, 1}
NoLabels == << >>

\* persisted models have 1..MaxDims dimensions and 1..MaxComps components
MaxDims == 2
MaxComps == 2
\* values of the centering vector and of the explained variances
ArrVals == {0, 1}
\* fit_svd is called with k in 0..MaxK
MaxK == 4
\* four_quadrants is called up to MaxCalls times on one X
MaxCalls == 2
\* records of an orchestration event
MaxRecords == 3

\* a result not produced yet, and the matrix of a pipeline that is not run
None == [status |-> "none"]
NoMatrix == [r |-> 0, c |-> 0, q |-> 1, e |-> << >>]

-----------------------------------------------------------------------------
(* Program constants, in fixed-point units *)

\* 1e-12 added to the denominator of energy_split; squared unit is 1e-12
EnergyEps == 1
\* row-norm threshold 1e-8 of Q_study.rate: (1e-8 / 1e-6)^2 = 1 / 10000
NormTolInvSq == 10000
\* 0.01, the agreed tolerance of the energy check, as 1 / 100
EnergyTolInv == 100

\* method="auto": rows above which the randomized decomposition is chosen
AutoRandomizedRows == 10000
\* method="auto": columns above which the randomized decomposition is chosen
AutoRandomizedCols == 1000
\* method="auto": rows above which the incremental decomposition is chosen
AutoIncrementalRows == 2000
\* IncrementalPCA batch size is min(MaxBatch, n // BatchShare)
MaxBatch == 1000
BatchShare == 4

-----------------------------------------------------------------------------
(* numpy array arithmetic on exact matrices *)

RECURSIVE SumFn(_, _)
\* f[1] + ... + f[k]
SumFn(f, k) == IF k = 0 THEN 0 ELSE f[k] + SumFn(f, k - 1)

\* f itself; the comparison makes TLC tabulate f once instead of on every use
Tabulated(f) == IF f = f THEN f ELSE f

\* the rr x cc matrix with numerators f[i, j] and denominator qq
Mat(rr, cc, qq, f) == [r |-> rr, c |-> cc, q |-> qq, e |-> Tabulated(f)]

\* common denominator of two denominators, kept small
CommonDen(a, b) ==
    IF a = 0 \/ b = 0 THEN 0
    ELSE IF a = b THEN a
    ELSE IF b % a = 0 THEN b
    ELSE IF a % b = 0 THEN a
    ELSE a * b

\* numpy broadcasting of an index into an axis of the given size
Bidx(k, size) == IF size = 1 THEN 1 ELSE k
\* size of the broadcast axis: an axis of size 1 stretches to the other size
BMax(a, b) == IF a = 1 THEN b ELSE a
Broadcastable(A, B) ==
    /\ (A.r = B.r \/ A.r = 1 \/ B.r = 1)
    /\ (A.c = B.c \/ A.c = 1 \/ B.c = 1)

\* A - B with numpy broadcasting
NpSub(A, B) ==
    LET q == CommonDen(A.q, B.q) IN
    Mat(BMax(A.r, B.r), BMax(A.c, B.c), q,
        [<<i, j>> \in (1..(BMax(A.r, B.r))) \X (1..(BMax(A.c, B.c))) |->
            A.e[Bidx(i, A.r), Bidx(j, A.c)] * (q \div A.q)
                    - B.e[Bidx(i, B.r), Bidx(j, B.c)] * (q \div B.q)])

\* A + B with numpy broadcasting
NpAdd(A, B) ==
    LET q == CommonDen(A.q, B.q) IN
    Mat(BMax(A.r, B.r), BMax(A.c, B.c), q,
        [<<i, j>> \in (1..(BMax(A.r, B.r))) \X (1..(BMax(A.c, B.c))) |->
            A.e[Bidx(i, A.r), Bidx(j, A.c)] * (q \div A.q)
                    + B.e[Bidx(i, B.r), Bidx(j, B.c)] * (q \div B.q)])

\* A / k for a positive integer k
NpDiv(A, k) ==
    IF \A ij \in DOMAIN A.e : A.e[ij] % k = 0
    THEN [A EXCEPT !.e = [ij \in DOMAIN A.e |-> A.e[ij] \div k]]
    ELSE [A EXCEPT !.q = A.q * k]

\* A.T
Transpose(A) == Mat(A.c, A.r, A.q,
        [<<i, j>> \in (1..(A.c)) \X (1..(A.r)) |->
            A.e[j, i]])

\* A @ B (inner dimensions agree)
MatMul(A, B) ==
    Mat(A.r, B.c, A.q * B.q,
        [<<i, j>> \in (1..(A.r)) \X (1..(B.c)) |->
            SumFn([t \in 1..A.c |-> A.e[i, t] * B.e[t, j]], A.c)])

\* np.eye(d)
Eye(d) == Mat(d, d, 1,
        [<<i, j>> \in (1..(d)) \X (1..(d)) |->
            IF i = j THEN 1 ELSE 0])

\* A.mean(axis=0, keepdims=True)
MeanRows(A) ==
    Mat(1, A.c, A.q * A.r,
        [<<i, j>> \in (1..(1)) \X (1..(A.c)) |->
            SumFn([t \in 1..A.r |-> A.e[t, j]], A.r)])

\* the numerator of (A**2).sum(); its denominator is A.q * A.q
SumSqNum(A) ==
    SumFn([i \in 1..A.r |->
              SumFn([j \in 1..A.c |-> A.e[i, j] * A.e[i, j]], A.c)], A.r)

\* numerator of the squared L2 norm of row i
RowSqNum(A, i) == SumFn([j \in 1..A.c |-> A.e[i, j] * A.e[i, j]], A.c)

\* the two matrices hold the same values (np.allclose in exact arithmetic)
SameValues(A, B) ==
    /\ A.r = B.r
    /\ A.c = B.c
    /\ \A ij \in DOMAIN A.e : A.e[ij] * B.q = B.e[ij] * A.q

IsZero(A) == \A ij \in DOMAIN A.e : A.e[ij] = 0

\* Python slice a[:k] on an axis of the given length: number of items kept
PySliceLen(k, len) ==
    IF k < 0 THEN (IF len + k > 0 THEN len + k ELSE 0)
    ELSE IF k < len THEN k ELSE len

\* A[:k]
RowSlice(A, k) == Mat(PySliceLen(k, A.r), A.c, A.q,
        [<<i, j>> \in (1..(PySliceLen(k, A.r))) \X (1..(A.c)) |->
            A.e[i, j]])

-----------------------------------------------------------------------------
(* np.linalg.svd(A, full_matrices=False): the Vt it returns *)

Dims == {s[2] : s \in Shapes}

\* integer vectors w of length d with |w| = UnitDen, i.e. unit vectors w/UnitDen
UnitVectors ==
    [d \in Dims |->
        {w \in [1..d -> -UnitDen..UnitDen] :
            SumFn([j \in 1..d |-> w[j] * w[j]], d) = UnitDen * UnitDen}]

Dot(u, w, d) == SumFn([j \in 1..d |-> u[j] * w[j]], d)

RECURSIVE Gcd(_, _)
Gcd(a, b) == IF b = 0 THEN a ELSE Gcd(b, a % b)
Abs(a) == IF a < 0 THEN -a ELSE a

RECURSIVE GcdOver(_, _)
\* greatest common divisor of the numerators e[ij], ij in the set S (0 if all 0)
GcdOver(e, S) ==
    IF S = {} THEN 0
    ELSE LET ij == CHOOSE x \in S : TRUE
         IN Gcd(Abs(e[ij]), GcdOver(e, S \ {ij}))

\* A.T @ A up to a positive factor (a factor does not change singular
\* vectors): the numerators of A are divided by their common divisor first
Gram(A) ==
    LET g == GcdOver(A.e, DOMAIN A.e)
        h == IF g = 0 THEN 1 ELSE g
    IN Tabulated([ij \in (1..A.c) \X (1..A.c) |->
        SumFn([t \in 1..A.r |->
                 (A.e[t, ij[1]] \div h) * (A.e[t, ij[2]] \div h)], A.r)])

\* w.T @ G @ w
Quad(G, w, d) ==
    SumFn([i \in 1..d |-> w[i] * SumFn([j \in 1..d |-> G[i, j] * w[j]], d)], d)

\* w / UnitDen is an eigenvector of G
IsEigen(G, w, d) ==
    \A i \in 1..d :
        UnitDen * UnitDen * SumFn([j \in 1..d |-> G[i, j] * w[j]], d)
            = Quad(G, w, d) * w[i]

RECURSIVE SingularRows(_, _, _, _)
\* sequences of K orthonormal eigenvectors of G extending prefix, with
\* non-increasing singular values
SingularRows(G, d, K, prefix) ==
    IF Len(prefix) = K THEN {prefix}
    ELSE UNION { SingularRows(G, d, K, Append(prefix, w)) :
                   w \in {u \in UnitVectors[d] :
                            /\ IsEigen(G, u, d)
                            /\ \A t \in 1..Len(prefix) :
                                  /\ Dot(prefix[t], u, d) = 0
                                  /\ Quad(G, prefix[t], d) >= Quad(G, u, d)} }

\* the rows reproduce A.T @ A: no direction of A is left out of Vt
Spans(G, d, rows) ==
    \A i, j \in 1..d :
        UnitDen * UnitDen * UnitDen * UnitDen * G[i, j]
            = SumFn([t \in 1..Len(rows) |->
                        Quad(G, rows[t], d) * rows[t][i] * rows[t][j]],
                    Len(rows))

\* every Vt (shape min(n, d) x d, orthonormal rows, singular values in
\* decreasing order) that a thin SVD of A may return; ties and zero singular
\* values leave the choice of basis to the LAPACK driver
Svd(A) ==
    LET K == IF A.r < A.c THEN A.r ELSE A.c
        G == Gram(A)
    IN { Mat(K, A.c, UnitDen,
        [<<i, j>> \in (1..(K)) \X (1..(A.c)) |->
            rows[i][j]]) :
           rows \in {s \in SingularRows(G, A.c, K, << >>) : Spans(G, A.c, s)} }

-----------------------------------------------------------------------------
(* q4/operator.py *)

\* np.unique(labels)
Unique(lab) == {lab[i] : i \in DOMAIN lab}

\* X[labels == c].mean(axis=0) - mu for each class c, stacked (np.vstack)
ClassMeanDiffs(A, lab) ==
    LET classes == Unique(lab)
        ord == CHOOSE s \in [1..Cardinality(classes) -> classes] :
                  \A a, b \in DOMAIN s : a < b => s[a] < s[b]
        cnt(c) == Cardinality({i \in 1..A.r : lab[i] = c})
        csum(c, j) ==
            SumFn([i \in 1..A.r |-> IF lab[i] = c THEN A.e[i, j] ELSE 0], A.r)
        tot(j) == SumFn([i \in 1..A.r |-> A.e[i, j]], A.r)
        F == IF Cardinality(classes) = 1 THEN cnt(ord[1])
             ELSE cnt(ord[1]) * cnt(ord[2])
    IN Mat(Cardinality(classes), A.c, A.q * F * A.r,
        [<<k, j>> \in (1..(Cardinality(classes))) \X (1..(A.c)) |->
            csum(ord[k], j) * (F \div cnt(ord[k])) * A.r
                         - tot(j) * F])

\* X - X.mean(axis=0, keepdims=True)
Centered(A) == NpSub(A, MeanRows(A))

\* Pv = (Pv + Pv.T) / 2
SymmetrizeNoHalf(P) == NpAdd(P, Transpose(P))
Symmetrize(P) == NpDiv(NpAdd(P, Transpose(P)), 2)

\* the pair built from one Vt: Bv = Vt[:r].T, Pv = Bv @ Bv.T, symmetrized,
\* Ps = eye(d) - Pv
ProjectorsFromOwnBasis(Vt, k, d) ==
    LET Bv == Transpose(RowSlice(Vt, k))
        Bs == Transpose(Mat(Vt.r - Bv.c, Vt.c, Vt.q,
        [<<i, j>> \in (1..(Vt.r - Bv.c)) \X (1..(Vt.c)) |->
            Vt.e[i + Bv.c, j]]))
    IN [Ps |-> Symmetrize(MatMul(Bs, Transpose(Bs))),
        Pv |-> Symmetrize(MatMul(Bv, Transpose(Bv))),
        Bv |-> Bv]
\* the pair built from the first row of Vt only, whatever the rank
ProjectorsFromFirstRow(Vt, k, d) ==
    LET Bv == Transpose(RowSlice(Vt, 1))
        Pv == Symmetrize(MatMul(Bv, Transpose(Bv)))
    IN [Ps |-> NpSub(Eye(d), Pv), Pv |-> Pv, Bv |-> Bv]
ProjectorsFrom(Vt, k, d) ==
    LET Bv == Transpose(RowSlice(Vt, k))
        Pv == Symmetrize(MatMul(Bv, Transpose(Bv)))
    IN [Ps |-> NpSub(Eye(d), Pv), Pv |-> Pv, Bv |-> Bv]

\* a matrix with denominator 0 holds no finite value: the entry e / 0 is NaN
\* for e = 0 and an infinity of the sign of e otherwise
NonFinite(A) == A.q = 0

\* learn_projectors_linear(X, labels, r): every pair it may return.  The
\* function checks nothing itself.  Centering turns every non-finite column
\* into NaN (inf - inf), and np.linalg.svd raises LinAlgError when LAPACK
\* reports the NaN.  An X without rows or without columns is decomposed
\* like any other: Vt then has no rows.
learn_projectors_linear(A, lab, k) ==
    IF NonFinite(A)
    THEN {[error |-> "LinAlgError"]}
    ELSE LET T == IF lab # NoLabels THEN ClassMeanDiffs(A, lab)
                  ELSE Centered(A)
         IN { ProjectorsFrom(Vt, k, A.c) : Vt \in Svd(T) }

\* float(np.mean(np.linalg.norm(Q_discard, axis=1) > 1e-8)) as num / den
RowRateSum(Q) ==
    [num |-> Cardinality({i \in 1..Q.r :
                RowSqNum(Q, i) > (Q.q * Q.q) \div NormTolInvSq}),
     den |-> 1]
RowRate(Q) ==
    [num |-> Cardinality({i \in 1..Q.r :
                RowSqNum(Q, i) > (Q.q * Q.q) \div NormTolInvSq}),
     den |-> Q.r]

\* muV.squeeze().tolist(): a list for d >= 2, a bare number for d = 1
SqueezeToList(m) ==
    IF m.c = 1 THEN [kind |-> "float", num |-> m.e[1, 1], den |-> m.q]
    ELSE [kind |-> "list", num |-> [j \in 1..m.c |-> m.e[1, j]], den |-> m.q]

\* The array object behind each array of a result.  The matrix products, the
\* copy and the difference each allocate a new array in the call; an array
\* of the caller would be named by InputArrays.
InputArrays == {"X", "Ps", "Pv"}
NewArrays ==
    [S |-> "S", V |-> "V", Q_keep |-> "Q_keep", Q_discard |-> "Q_discard"]

\* four_quadrants returning S itself as Q_keep, without the copy
four_quadrants_shared(A, Ps, Pv) ==
    LET S == MatMul(A, Transpose(Ps))
        V == MatMul(A, Transpose(Pv))
        muV == MeanRows(V)
        Q_discard == NpSub(V, muV)
    IN [S |-> S, V |-> V, Q_keep |-> S, Q_discard |-> Q_discard,
        Q_study |-> [mu_V |-> SqueezeToList(muV), rate |-> RowRate(Q_discard)],
        buf |-> [NewArrays EXCEPT !.Q_keep = "S"]]
\* four_quadrants without the recentring of V
four_quadrants_uncentered(A, Ps, Pv) ==
    LET S == MatMul(A, Transpose(Ps))
        V == MatMul(A, Transpose(Pv))
        muV == MeanRows(V)
    IN [S |-> S, V |-> V, Q_keep |-> S, Q_discard |-> V,
        Q_study |-> [mu_V |-> SqueezeToList(muV), rate |-> RowRate(V)],
        buf |-> NewArrays]
\* four_quadrants with S and V transposed by mistake
four_quadrants_swapped(A, Ps, Pv) ==
    LET S == MatMul(Ps, Transpose(A))
        V == MatMul(Pv, Transpose(A))
        muV == MeanRows(V)
        Q_discard == NpSub(V, muV)
    IN [S |-> S, V |-> V, Q_keep |-> S, Q_discard |-> Q_discard,
        Q_study |-> [mu_V |-> SqueezeToList(muV), rate |-> RowRate(Q_discard)],
        buf |-> NewArrays]
four_quadrants(A, Ps, Pv) ==
    LET S == MatMul(A, Transpose(Ps))
        V == MatMul(A, Transpose(Pv))
        muV == MeanRows(V)
        Q_discard == NpSub(V, muV)
    IN [S |-> S, V |-> V, Q_keep |-> S, Q_discard |-> Q_discard,
        Q_study |-> [mu_V |-> SqueezeToList(muV), rate |-> RowRate(Q_discard)],
        buf |-> NewArrays]

\* energy_split(X, Ps, Pv) as the fraction num / den
energy_split_keep_only(A, Ps, Pv) ==
    LET S == MatMul(A, Ps)
    IN [num |-> SumSqNum(S) * (A.q * A.q),
        den |-> (SumSqNum(A) + EnergyEps * A.q * A.q) * (S.q * S.q)]
energy_split(A, Ps, Pv) ==
    LET S == MatMul(A, Ps)
        V == MatMul(A, Pv)
        qq == CommonDen(S.q, V.q)
        num == SumSqNum(S) * ((qq \div S.q) * (qq \div S.q))
             + SumSqNum(V) * ((qq \div V.q) * (qq \div V.q))
    IN [num |-> num * (A.q * A.q),
        den |-> (SumSqNum(A) + EnergyEps * A.q * A.q) * (qq * qq)]

-----------------------------------------------------------------------------
(* The projector pipeline: learn, split, account (cli.run_file) *)

\* label arrays of length n; the first row's class is called 0
LabelArrays(n) ==
    IF n = 0 THEN {} ELSE {lab \in [1..n -> Classes] : lab[1] = 0}

InitProj ==
    /\ \E s \in Shapes, k \in 1..MaxScale :
         \E p \in [1..s[1] -> RowVals[s[2]]] :
            X = Mat(s[1], s[2], 1,
        [<<i, j>> \in (1..(s[1])) \X (1..(s[2])) |->
            k * p[i][j]])
    /\ labels \in {NoLabels} \cup LabelArrays(X.r)
    /\ rank \in 1..MaxRank
    /\ pc = "start"
    /\ proj = None
    /\ quad = None
    /\ energy = None
    /\ model = None
    /\ model0 = None
    /\ fs = None
    /\ savePc = "idle"
    /\ loaded = None
    /\ Vin = NoMatrix
    /\ Zout = None
    /\ fitIn = None
    /\ fitOut = None
    /\ Zq = NoMatrix
    /\ feats = None
    /\ Vn = NoMatrix
    /\ fitted = None
    /\ calls = None
    /\ ests = None
    /\ run = None
    /\ orch = None

\* calls with an X the contract excludes: no rows, no columns, or entries
\* that are NaN or infinite.  An empty label array cannot be told from
\* labels=None here, so an X without rows is learned without labels.
InitInvalid ==
    /\ \/ \E s \in EmptyShapes :
            X = Mat(s[1], s[2], 1,
                    [<<i, j>> \in (1..(s[1])) \X (1..(s[2])) |-> 0])
       \/ \E s \in NonFiniteShapes :
            \E p \in [1..s[1] -> RowVals[s[2]]] :
               X = Mat(s[1], s[2], 0,
                       [<<i, j>> \in (1..(s[1])) \X (1..(s[2])) |-> p[i][j]])
    /\ labels \in {NoLabels} \cup LabelArrays(X.r)
    /\ rank \in 1..MaxRank
    /\ pc = "start"
    /\ proj = None
    /\ quad = None
    /\ energy = None
    /\ model = None
    /\ model0 = None
    /\ fs = None
    /\ savePc = "idle"
    /\ loaded = None
    /\ Vin = NoMatrix
    /\ Zout = None
    /\ fitIn = None
    /\ fitOut = None
    /\ Zq = NoMatrix
    /\ feats = None
    /\ Vn = NoMatrix
    /\ fitted = None
    /\ calls = None
    /\ ests = None
    /\ run = None
    /\ orch = None

\* Ps, Pv = learn_projectors_linear(X, labels, r)
Learn ==
    /\ pc = "start"
    /\ \E P \in learn_projectors_linear(X, labels, rank) :
          IF "error" \in DOMAIN P
          THEN /\ proj' = [status |-> "error", error |-> P.error]
               /\ pc' = "failed"
          ELSE /\ proj' = [status |-> "ok", Ps |-> P.Ps, Pv |-> P.Pv,
                           BvShape |-> <<P.Bv.r, P.Bv.c>>]
               /\ pc' = "learned"
    /\ UNCHANGED <<X, labels, rank, quad, energy, storeVars, fitVars, extVars>>

\* the array object of field f of the result of the given call: the arrays
\* a call allocates are its own, the arrays of the caller are shared
ArrayOf(q, call, f) ==
    IF q.buf[f] \in InputArrays THEN <<0, q.buf[f]>> ELSE <<call, q.buf[f]>>

\* a[0, 0] += 1.0
Written(A) == [A EXCEPT !.e[1, 1] = @ + A.q]

\* the result q of the given call after a write through the array target
Touched(q, call, target) ==
    [q EXCEPT
       !.S = IF ArrayOf(q, call, "S") = target THEN Written(@) ELSE @,
       !.V = IF ArrayOf(q, call, "V") = target THEN Written(@) ELSE @,
       !.Q_keep =
           IF ArrayOf(q, call, "Q_keep") = target THEN Written(@) ELSE @,
       !.Q_discard =
           IF ArrayOf(q, call, "Q_discard") = target THEN Written(@) ELSE @]

\* q = four_quadrants(X, Ps, Pv); the results of earlier calls stay with the
\* caller in quad.prev
FourQuadrants ==
    /\ pc \in {"learned", "split"}
    /\ IF quad.status = "ok"
       THEN /\ quad.call < MaxCalls
            /\ quad' = [status |-> "ok",
                        q |-> four_quadrants(X, proj.Ps, proj.Pv),
                        call |-> quad.call + 1, writes |-> 0,
                        prev |-> Append(quad.prev, quad.q)]
       ELSE quad' = [status |-> "ok",
                     q |-> four_quadrants(X, proj.Ps, proj.Pv),
                     call |-> 1, writes |-> 0, prev |-> << >>]
    /\ pc' = "split"
    /\ UNCHANGED <<X, labels, rank, proj, energy, storeVars, fitVars, extVars>>

\* the caller writes into the Q_keep it was handed: q.Q_keep[0, 0] += 1.0.
\* Every array that is the same object changes with it.
WriteKeep ==
    /\ pc = "split"
    /\ quad.writes = 0
    /\ X.r > 0 /\ X.c > 0
    /\ LET target == ArrayOf(quad.q, quad.call, "Q_keep") IN
         /\ quad' = [quad EXCEPT
                        !.writes = 1,
                        !.q = Touched(@, quad.call, target),
                        !.prev = [t \in DOMAIN @ |-> Touched(@[t], t, target)]]
         /\ X' = IF target = <<0, "X">> THEN Written(X) ELSE X
         /\ proj' = [proj EXCEPT
                        !.Ps = IF target = <<0, "Ps">> THEN Written(@) ELSE @,
                        !.Pv = IF target = <<0, "Pv">> THEN Written(@) ELSE @]
    /\ UNCHANGED <<labels, rank, pc, energy, storeVars, fitVars, extVars>>

\* energy_split(X, Ps, Pv), written to er.json with the row count
EnergySplit ==
    /\ pc = "split"
    /\ LET ratio == energy_split(X, proj.Ps, proj.Pv) IN
         energy' = [status |-> "ok", ratio |-> ratio,
                    er |-> [energy_split |-> ratio, rows |-> X.r]]
    /\ pc' = "done"
    /\ UNCHANGED <<X, labels, rank, proj, quad, storeVars, fitVars, extVars>>

\* the steps of run_file
NextRun == Learn \/ FourQuadrants \/ EnergySplit

NextProj == Learn \/ FourQuadrants \/ WriteKeep \/ EnergySplit

-----------------------------------------------------------------------------
(* q4/svd_ops.py: SVDModel, save, load *)

\* numpy arrays of the model: [ndim |-> 1, v |-> <<x1, ..>>] or
\* [ndim |-> 2, v |-> << row1, .. >>]
Vec(v) == [ndim |-> 1, v |-> v]
Arr2(rows) == [ndim |-> 2, v |-> rows]
Shape(a) == IF a.ndim = 1 THEN <<Len(a.v)>> ELSE <<Len(a.v), Len(a.v[1])>>

\* np.zeros(d)
Zeros(d) == Vec([j \in 1..d |-> 0])

Absent == [kind |-> "absent"]
\* a file that was opened for writing and does not hold its content yet
Partial == [kind |-> "partial"]
FileNames == {"mu.npy", "components.npy", "explained_var.npy", "meta.json"}

\* np.save: the .npy file holds the shape and the items in row-major order
NpSave(a) ==
    [kind |-> "npy", shape |-> Shape(a),
     data |-> IF a.ndim = 1 THEN a.v
              ELSE [t \in 1..(Len(a.v) * Len(a.v[1])) |->
                      a.v[((t - 1) \div Len(a.v[1])) + 1]
                         [((t - 1) % Len(a.v[1])) + 1]]]

\* np.load: rebuild the array from the shape and the items
NpLoad(f) ==
    IF Len(f.shape) = 1 THEN Vec(f.data)
    ELSE Arr2([i \in 1..f.shape[1] |->
                 [j \in 1..f.shape[2] |-> f.data[(i - 1) * f.shape[2] + j]]])

\* what np.load raises on a file: nothing for a complete .npy file
LoadError(f) ==
    IF f = Absent THEN "FileNotFoundError"
    ELSE IF f = Partial THEN "EOFError"
    ELSE "none"

\* the three files in the order load reads them
LoadOrder == <<"mu.npy", "components.npy", "explained_var.npy">>

\* SVDModel.load on the files of the directory: the first file that cannot
\* be read ends the call; meta.json is never opened
LoadFromSwapped(files) ==
    LET bad == {i \in DOMAIN LoadOrder : LoadError(files[LoadOrder[i]]) # "none"}
    IN IF bad # {}
       THEN [status |-> "error",
             error |-> LoadError(files[LoadOrder[
                          CHOOSE i \in bad : \A t \in bad : i <= t]])]
       ELSE [status |-> "ok",
             model |-> [mu |-> NpLoad(files["mu.npy"]),
                        components |-> NpLoad(files["components.npy"]),
                        explained_var |-> NpLoad(files["mu.npy"])]]
LoadFrom(files) ==
    LET bad == {i \in DOMAIN LoadOrder : LoadError(files[LoadOrder[i]]) # "none"}
    IN IF bad # {}
       THEN [status |-> "error",
             error |-> LoadError(files[LoadOrder[
                          CHOOSE i \in bad : \A t \in bad : i <= t]])]
       ELSE [status |-> "ok",
             model |-> [mu |-> NpLoad(files["mu.npy"]),
                        components |-> NpLoad(files["components.npy"]),
                        explained_var |-> NpLoad(files["explained_var.npy"])]]

\* a 1-D array as the row it is in broadcasting, a 2-D array as a matrix
AsRow(a) ==
    Mat(1, Len(a.v), 1, [<<i, j>> \in (1..1) \X (1..Len(a.v)) |-> a.v[j]])
AsMat(a) ==
    Mat(Len(a.v), Len(a.v[1]), 1,
        [<<i, j>> \in (1..Len(a.v)) \X (1..Len(a.v[1])) |-> a.v[i][j]])

\* project(V, model): the result, and V and the model as the call leaves them
project_uncentered(v, m) ==
    LET comps == AsMat(m.components)
    IN IF v.c # comps.c
       THEN [result |-> [status |-> "error", error |-> "ValueError"],
             V |-> v, model |-> m]
       ELSE [result |-> [status |-> "ok",
                         Z |-> MatMul(v, Transpose(comps))],
             V |-> v, model |-> m]
project(v, m) ==
    LET mu == AsRow(m.mu)
        comps == AsMat(m.components)
    IN IF ~Broadcastable(v, mu) \/ BMax(v.c, mu.c) # comps.c
       THEN [result |-> [status |-> "error", error |-> "ValueError"],
             V |-> v, model |-> m]
       ELSE [result |-> [status |-> "ok",
                         Z |-> MatMul(NpSub(v, mu), Transpose(comps))],
             V |-> v, model |-> m]

\* arrays handed to project: one or two rows, one to three columns
VChoices ==
    { Mat(1, 1, 1, [<<i, j>> \in (1..1) \X (1..1) |-> 2]),
      Mat(2, 1, 1, [<<i, j>> \in (1..2) \X (1..1) |-> 2 * i - 1]),
      Mat(1, 2, 1, [<<i, j>> \in (1..1) \X (1..2) |-> j]),
      Mat(2, 2, 1, [<<i, j>> \in (1..2) \X (1..2) |-> i * i + j * j + 1]),
      Mat(1, 3, 1, [<<i, j>> \in (1..1) \X (1..3) |-> j]) }

\* meta = {"dims": mu.shape[0], "k": components.shape[0]}
MetaOfSwapped(m) ==
    [kind |-> "json", dims |-> Shape(m.components)[1], k |-> Shape(m.mu)[1]]
MetaOf(m) ==
    [kind |-> "json", dims |-> Shape(m.mu)[1], k |-> Shape(m.components)[1]]

\* component matrices of shape (k, d)
ComponentChoices(k, d) ==
    { Arr2([i \in 1..k |-> [j \in 1..d |-> IF i = j THEN 1 ELSE 0]]),
      Arr2([i \in 1..k |-> [j \in 1..d |-> 10 * i + j]]) }

\* a model as fit_svd returns it: mu is np.zeros(d)
InitStore ==
    /\ \E d \in 1..MaxDims, k \in 1..MaxComps :
         \E comps \in ComponentChoices(k, d), ev \in [1..k -> ArrVals] :
            model = [mu |-> Zeros(d), components |-> comps,
                     explained_var |-> Vec(ev)]
    /\ model0 = None
    /\ fs = [dir |-> FALSE, files |-> [name \in FileNames |-> Absent]]
    /\ savePc = "idle"
    /\ loaded = None
    /\ Vin = NoMatrix
    /\ Zout = None
    /\ X = NoMatrix
    /\ labels = NoLabels
    /\ rank = 1
    /\ pc = "idle"
    /\ proj = None
    /\ quad = None
    /\ energy = None
    /\ fitIn = None
    /\ fitOut = None
    /\ Zq = NoMatrix
    /\ feats = None
    /\ Vn = NoMatrix
    /\ fitted = None
    /\ calls = None
    /\ ests = None
    /\ run = None
    /\ orch = None

\* the caller overwrites mu after fit: model.mu = mu
SetMu ==
    /\ savePc = "idle"
    /\ \E len \in {1, Len(model.mu.v)} :
         \E v \in [1..len -> ArrVals] :
            model' = [model EXCEPT !.mu = Vec(v)]
    /\ UNCHANGED <<model0, fs, savePc, loaded, Vin, Zout, projVars, fitVars, extVars>>

\* save: path.mkdir(parents=True, exist_ok=True)
SaveMkdir ==
    /\ savePc = "idle"
    /\ model0' = model
    /\ fs' = [fs EXCEPT !.dir = TRUE]
    /\ savePc' = "mu"
    /\ UNCHANGED <<model, loaded, Vin, Zout, projVars, fitVars, extVars>>

\* Each file of save is written in two steps: open(file, "wb") leaves the
\* file in place and empty, the content follows before the file is closed.

\* save: np.save(path / "mu.npy", self.mu) opens the file
SaveMuOpen ==
    /\ savePc = "mu"
    /\ fs' = [fs EXCEPT !.files["mu.npy"] = Partial]
    /\ savePc' = "mu_open"
    /\ UNCHANGED <<model, model0, loaded, Vin, Zout, projVars, fitVars, extVars>>

\* save: np.save(path / "mu.npy", self.mu) writes the content and closes the file
SaveMu ==
    /\ savePc = "mu_open"
    /\ fs' = [fs EXCEPT !.files["mu.npy"] = NpSave(model.mu)]
    /\ savePc' = "components"
    /\ UNCHANGED <<model, model0, loaded, Vin, Zout, projVars, fitVars, extVars>>

\* save: np.save(path / "components.npy", ...) opens the file
SaveComponentsOpen ==
    /\ savePc = "components"
    /\ fs' = [fs EXCEPT !.files["components.npy"] = Partial]
    /\ savePc' = "components_open"
    /\ UNCHANGED <<model, model0, loaded, Vin, Zout, projVars, fitVars, extVars>>

\* save: np.save(path / "components.npy", ...) writes the content and closes the file
SaveComponents ==
    /\ savePc = "components_open"
    /\ fs' = [fs EXCEPT !.files["components.npy"] = NpSave(model.components)]
    /\ savePc' = "explained_var"
    /\ UNCHANGED <<model, model0, loaded, Vin, Zout, projVars, fitVars, extVars>>

\* save: np.save(path / "explained_var.npy", ...) opens the file
SaveExplainedVarOpen ==
    /\ savePc = "explained_var"
    /\ fs' = [fs EXCEPT !.files["explained_var.npy"] = Partial]
    /\ savePc' = "explained_var_open"
    /\ UNCHANGED <<model, model0, loaded, Vin, Zout, projVars, fitVars, extVars>>

\* save: np.save(path / "explained_var.npy", ...) writes the content and closes the file
SaveExplainedVar ==
    /\ savePc = "explained_var_open"
    /\ fs' = [fs EXCEPT !.files["explained_var.npy"] = NpSave(model.explained_var)]
    /\ savePc' = "meta"
    /\ UNCHANGED <<model, model0, loaded, Vin, Zout, projVars, fitVars, extVars>>

\* save: (path / "meta.json").write_text(...) opens the file
SaveMetaOpen ==
    /\ savePc = "meta"
    /\ fs' = [fs EXCEPT !.files["meta.json"] = Partial]
    /\ savePc' = "meta_open"
    /\ UNCHANGED <<model, model0, loaded, Vin, Zout, projVars, fitVars, extVars>>

\* save: (path / "meta.json").write_text(...) writes the content and closes the file
SaveMeta ==
    /\ savePc = "meta_open"
    /\ fs' = [fs EXCEPT !.files["meta.json"] = MetaOf(model)]
    /\ savePc' = "done"
    /\ UNCHANGED <<model, model0, loaded, Vin, Zout, projVars, fitVars, extVars>>

\* the process is stopped inside save: the files stay as they are
SaveInterrupted ==
    /\ savePc \notin {"idle", "done", "interrupted"}
    /\ savePc' = "interrupted"
    /\ UNCHANGED <<model, model0, fs, loaded, Vin, Zout, projVars, fitVars, extVars>>

\* SVDModel.load(path), called at any point of the save; seen is the
\* directory as the call found it
Load ==
    /\ loaded' = LoadFrom(fs.files) @@ [at |-> savePc, seen |-> fs.files]
    /\ UNCHANGED <<model, model0, fs, savePc, Vin, Zout, projVars, fitVars, extVars>>

\* the caller picks the array to project
SetV ==
    /\ Vin' \in VChoices
    /\ Zout' = None
    /\ UNCHANGED <<model, model0, fs, savePc, loaded, projVars, fitVars, extVars>>

\* Z = project(V, model)
Project ==
    /\ Vin # NoMatrix
    /\ LET out == project(Vin, model) IN
         /\ Zout' = out.result
         /\ Vin' = out.V
         /\ model' = out.model
    /\ UNCHANGED <<model0, fs, savePc, loaded, projVars, fitVars, extVars>>

NextStore ==
    \/ SetMu
    \/ SaveMkdir
    \/ SaveMuOpen
    \/ SaveMu
    \/ SaveComponentsOpen
    \/ SaveComponents
    \/ SaveExplainedVarOpen
    \/ SaveExplainedVar
    \/ SaveMetaOpen
    \/ SaveMeta
    \/ SaveInterrupted
    \/ Load
    \/ SetV
    \/ Project

-----------------------------------------------------------------------------
(* q4/svd_ops.py: fit_svd *)

Min(a, b) == IF a <= b THEN a ELSE b

Methods == {"auto", "truncated", "randomized", "incremental"}

\* the branch of fit_svd that runs for the given method argument
SelectMethodInclusive(n, d, method) ==
    IF method = "auto"
    THEN IF n >= AutoRandomizedRows \/ d >= AutoRandomizedCols
         THEN "randomized"
         ELSE IF n >= AutoIncrementalRows THEN "incremental"
         ELSE "truncated"
    ELSE method
SelectMethod(n, d, method) ==
    IF method = "auto"
    THEN IF n > AutoRandomizedRows \/ d > AutoRandomizedCols
         THEN "randomized"
         ELSE IF n > AutoIncrementalRows THEN "incremental"
         ELSE "truncated"
    ELSE method

\* sklearn TruncatedSVD(n_components=k).fit_transform on an (n, d) array, in
\* both uses the randomized solver: it rejects fewer than 2 features, k < 1
\* and k > d; the solver returns min(k, n, d) components
TruncatedSVD(n, d, k) ==
    IF d < 2 \/ k < 1 \/ k > d
    THEN [status |-> "error", error |-> "ValueError"]
    ELSE [status |-> "ok",
          components_shape |-> <<Min(k, Min(n, d)), d>>,
          explained_variance_shape |-> <<Min(k, Min(n, d))>>]

\* sklearn IncrementalPCA(n_components=k, batch_size=min(1000, n // 4))
\* .fit_transform: it rejects batch_size < 1 and k < 1, and on the first
\* batch k > d and k > rows of the batch; the first batch of
\* gen_batches(n, batch, min_batch_size=k) has batch rows, or all n rows
\* when batch + k > n
IncrementalPCA(n, d, k) ==
    LET batch == Min(MaxBatch, n \div BatchShare)
        first == IF batch + k <= n THEN batch ELSE n
    IN IF batch < 1 \/ k < 1 \/ k > d \/ k > first
       THEN [status |-> "error", error |-> "ValueError"]
       ELSE [status |-> "ok",
             components_shape |-> <<k, d>>,
             explained_variance_shape |-> <<k>>]

\* fit_svd(Vn, k, seed, method) for Vn of shape (n, d)
fit_svd_mu_per_row(n, d, k, method) ==
    LET path == SelectMethod(n, d, method)
        svd == IF path = "incremental" THEN IncrementalPCA(n, d, k)
               ELSE TruncatedSVD(n, d, k)
    IN IF svd.status = "error"
       THEN [status |-> "error", path |-> path, error |-> svd.error]
       ELSE [status |-> "ok", path |-> path,
             model |-> [mu |-> Zeros(n),
                        components_shape |-> svd.components_shape,
                        explained_var_shape |-> svd.explained_variance_shape]]
fit_svd(n, d, k, method) ==
    LET path == SelectMethod(n, d, method)
        svd == IF path = "incremental" THEN IncrementalPCA(n, d, k)
               ELSE TruncatedSVD(n, d, k)
    IN IF svd.status = "error"
       THEN [status |-> "error", path |-> path, error |-> svd.error]
       ELSE [status |-> "ok", path |-> path,
             model |-> [mu |-> Zeros(d),
                        components_shape |-> svd.components_shape,
                        explained_var_shape |-> svd.explained_variance_shape]]

\* row and column counts around the thresholds of the automatic selection
RowCounts ==
    {1, 2, 3, 4, 8, 12,
     AutoIncrementalRows, AutoIncrementalRows + 1,
     AutoRandomizedRows, AutoRandomizedRows + 1}
ColCounts == {1, 2, 3, 4, AutoRandomizedCols, AutoRandomizedCols + 1}

InitFit ==
    /\ fitIn \in [n : RowCounts, d : ColCounts, k : 0..MaxK, method : Methods]
    /\ fitOut = None
    /\ Zq = NoMatrix
    /\ feats = None
    /\ Vn = NoMatrix
    /\ fitted = None
    /\ calls = None
    /\ ests = None
    /\ run = None
    /\ orch = None
    /\ X = NoMatrix
    /\ labels = NoLabels
    /\ rank = 1
    /\ pc = "idle"
    /\ proj = None
    /\ quad = None
    /\ energy = None
    /\ model = None
    /\ model0 = None
    /\ fs = None
    /\ savePc = "idle"
    /\ loaded = None
    /\ Vin = NoMatrix
    /\ Zout = None

\* model = fit_svd(Vn, k=k, method=method)
Fit ==
    /\ fitOut.status = "none"
    /\ fitOut' = fit_svd(fitIn.n, fitIn.d, fitIn.k, fitIn.method)
    /\ UNCHANGED <<fitIn, projVars, storeVars, extVars>>

NextFit == Fit

-----------------------------------------------------------------------------
(* q4/qstudy_map.py: compute_qstudy_vectors *)

\* tail_q = 0.997 as TailQNum / TailQDen
TailQNum == 997
TailQDen == 1000
\* at most this many dimensions get fields of their own
MaxReported == 6

\* np.abs(Z)[:, j], numerators
AbsCol(Zm, j) == [i \in 1..Zm.r |-> Abs(Zm.e[i, j])]

\* np.abs(Z) flattened, numerators
AbsAll(Zm) ==
    [t \in 1..(Zm.r * Zm.c) |->
        Abs(Zm.e[((t - 1) \div Zm.c) + 1, ((t - 1) % Zm.c) + 1])]

\* the t-th smallest of a[1], .., a[n]
OrderStat(a, n, t) ==
    CHOOSE v \in {a[i] : i \in 1..n} :
        /\ Cardinality({i \in 1..n : a[i] < v}) < t
        /\ Cardinality({i \in 1..n : a[i] <= v}) >= t

\* np.quantile(a, tail_q) of n values, times TailQDen: linear interpolation
\* between the order statistics around position (n - 1) * tail_q
Quantile(a, n) ==
    LET h == (n - 1) * TailQNum
        lo == h \div TailQDen
        g == h % TailQDen
    IN IF g = 0 THEN TailQDen * OrderStat(a, n, lo + 1)
       ELSE TailQDen * OrderStat(a, n, lo + 1)
               + g * (OrderStat(a, n, lo + 2) - OrderStat(a, n, lo + 1))

\* tau[j] = np.quantile(np.abs(Z), tail_q, axis=0)[j], times TailQDen
TauOverall(Zm, j) == Quantile(AbsAll(Zm), Zm.r * Zm.c)
Tau(Zm, j) == Quantile(AbsCol(Zm, j), Zm.r)

\* rows of column j with |Z[i, j]| > tau[j]
TailRows(Zm, j) ==
    {i \in 1..Zm.r : TailQDen * Abs(Zm.e[i, j]) > Tau(Zm, j)}

\* number of dimensions reported one by one: range(min(6, Z.shape[1]))
ReportedAll(k) == k
Reported(k) == Min(MaxReported, k)

\* the keys of feats: four aggregates, and comp{i}_mean, comp{i}_std,
\* comp{i}_tail for the reported dimensions i
Aggregates == {"mean_absV", "std_mean", "frac_tail_mean", "energy"}
PerComp == {"mean", "std", "tail"}
FieldNames(k) ==
    {[name |-> a, i |-> -1] : a \in Aggregates}
       \cup {[name |-> c, i |-> i] : c \in PerComp, i \in 0..(Reported(k) - 1)}

\* Z[:, j].std(ddof=1) squared, as unit^2 * num / den with unit the common
\* divisor of the column's numerators; den = 0 (NaN) for a single row
VarOf(Zm, j) ==
    LET g == GcdOver(Zm.e, {<<i, j>> : i \in 1..Zm.r})
        unit == IF g = 0 THEN 1 ELSE g
        col == [i \in 1..Zm.r |-> Zm.e[i, j] \div unit]
        tot == SumFn(col, Zm.r)
        sq == SumFn([i \in 1..Zm.r |-> col[i] * col[i]], Zm.r)
    IN [unit |-> unit,
        num |-> Zm.r * sq - tot * tot,
        den |-> Zm.r * (Zm.r - 1) * Zm.q * Zm.q]

\* the value stored under a key.  A standard deviation is kept as its
\* square, std_mean as the squares it is the mean of the roots of.
FieldValue(Zm, f) ==
    IF f.name = "mean_absV"
    THEN [num |-> SumFn(AbsAll(Zm), Zm.r * Zm.c), den |-> Zm.r * Zm.c * Zm.q]
    ELSE IF f.name = "std_mean"
    THEN [roots_of |-> [j \in 1..Zm.c |-> VarOf(Zm, j)], den |-> Zm.c]
    ELSE IF f.name = "frac_tail_mean"
    THEN [num |-> SumFn([j \in 1..Zm.c |-> Cardinality(TailRows(Zm, j))],
                        Zm.c),
          den |-> Zm.r * Zm.c]
    ELSE IF f.name = "energy"
    THEN [num |-> SumSqNum(Zm), den |-> Zm.r * Zm.q * Zm.q]
    ELSE IF f.name = "mean"
    THEN [num |-> SumFn([i \in 1..Zm.r |-> Zm.e[i, f.i + 1]], Zm.r),
          den |-> Zm.r * Zm.q]
    ELSE IF f.name = "std"
    THEN [root_of |-> VarOf(Zm, f.i + 1)]
    ELSE [num |-> Cardinality(TailRows(Zm, f.i + 1)), den |-> Zm.r]

\* compute_qstudy_vectors(Z): pd.DataFrame([feats]), one row
compute_qstudy_vectors(Zm) ==
    [rows |-> 1,
     feats |-> [f \in FieldNames(Zm.c) |-> FieldValue(Zm, f)]]

\* shapes (n, k) of the projected matrices, and their rows in pairs of
\* columns; the pairs alternate in sign along a row.  With k = 0 the means
\* over the columns are means of nothing: NaN, a fraction with den = 0.
QShapes == {<<n, k>> : n \in {1, 2, 3}, k \in {0, 1, 2, 6, 7}}
QRows == {<<0, 0>>, <<1, -2>>, <<2, 1>>, <<-1, 1>>, <<2, 2>>}

\* a column scaled by c and every other column by 1 / c
Scales == {10, 100}
Rescaled(Zm, col, c) ==
    Mat(Zm.r, Zm.c, Zm.q * c,
        [<<i, j>> \in (1..Zm.r) \X (1..Zm.c) |->
            IF j = col THEN Zm.e[i, j] * c * c ELSE Zm.e[i, j]])

InitQStudy ==
    /\ \E s \in QShapes :
         \E p \in [1..s[1] -> QRows] :
            Zq = Mat(s[1], s[2], 1,
                     [<<i, j>> \in (1..s[1]) \X (1..s[2]) |->
                         IF ((j - 1) \div 2) % 2 = 0
                         THEN p[i][((j - 1) % 2) + 1]
                         ELSE -p[i][((j - 1) % 2) + 1]])
    /\ feats = [status |-> "none"]
    /\ Vn = NoMatrix
    /\ fitted = None
    /\ calls = None
    /\ ests = None
    /\ run = None
    /\ orch = None
    /\ X = NoMatrix
    /\ labels = NoLabels
    /\ rank = 1
    /\ pc = "idle"
    /\ proj = None
    /\ quad = None
    /\ energy = None
    /\ model = None
    /\ model0 = None
    /\ fs = None
    /\ savePc = "idle"
    /\ loaded = None
    /\ Vin = NoMatrix
    /\ Zout = None
    /\ fitIn = None
    /\ fitOut = None

\* qstudy_features = compute_qstudy_vectors(Z); base keeps the record of
\* the matrix before it was rescaled
ComputeFeatures ==
    /\ feats.status \in {"none", "stale"}
    /\ feats' = [status |-> "ok",
                 df |-> compute_qstudy_vectors(Zq),
                 base |-> IF feats.status = "stale" THEN <<feats.df>>
                          ELSE << >>]
    /\ UNCHANGED <<Zq, Vn, fitted, calls, ests, run, orch,
                   projVars, storeVars, fitVars>>

\* the caller rescales the columns: X_dir[:, 0] *= 100; X_dir[:, 1:] *= 0.01
RescaleColumns ==
    /\ feats.status = "ok"
    /\ feats.base = << >>
    /\ \E col \in 1..Zq.c, c \in Scales : Zq' = Rescaled(Zq, col, c)
    /\ feats' = [feats EXCEPT !.status = "stale"]
    /\ UNCHANGED <<Vn, fitted, calls, ests, run, orch,
                   projVars, storeVars, fitVars>>

NextQStudy == ComputeFeatures \/ RescaleColumns

-----------------------------------------------------------------------------
(* q4/svd_ops.py: fit_svd, the values of the model *)

\* row i of A, numerators
RowOf(A, i) == [j \in 1..A.c |-> A.e[i, j]]

\* sklearn TruncatedSVD.explained_variance_ for the component w / UnitDen:
\* np.var(X_transformed, axis=0), the population variance of the column
\* A @ w of the transformed data, as num / den
ExplainedVariance(A, w) ==
    LET p == [t \in 1..A.r |-> Dot(RowOf(A, t), w, A.c)]
        tot == SumFn(p, A.r)
        sq == SumFn([t \in 1..A.r |-> p[t] * p[t]], A.r)
    IN [num |-> A.r * sq - tot * tot,
        den |-> A.r * A.r * A.q * A.q * UnitDen * UnitDen]

\* svd.components_ and svd.explained_variance_ of TruncatedSVD fitted on A:
\* the leading right singular vectors of A, in the order of the singular
\* values, and the variance of the data along each
TruncatedSVDValues(A, k) ==
    LET shape == TruncatedSVD(A.r, A.c, k) IN
    IF shape.status = "error" THEN {shape}
    ELSE { [status |-> "ok",
            components |-> [i \in 1..shape.components_shape[1] |->
                               [j \in 1..A.c |-> Vt.e[i, j]]],
            explained_variance |->
                [i \in 1..shape.components_shape[1] |->
                    ExplainedVariance(A, [j \in 1..A.c |-> Vt.e[i, j]])]] :
           Vt \in Svd(A) }

\* fit_svd(Vn, k, seed, method) with the values of the model, for Vn of
\* fewer than four rows: IncrementalPCA then gets batch_size = 0 and raises
fit_svd_values(A, k, method) ==
    LET path == SelectMethod(A.r, A.c, method) IN
    IF path = "incremental"
    THEN {[status |-> "error", path |-> path,
           error |-> IncrementalPCA(A.r, A.c, k).error]}
    ELSE { IF svd.status = "error"
           THEN [status |-> "error", path |-> path, error |-> svd.error]
           ELSE [status |-> "ok", path |-> path,
                 model |-> [mu |-> Zeros(A.c),
                            components |-> svd.components,
                            explained_var |-> svd.explained_variance]] :
           svd \in TruncatedSVDValues(A, k) }

\* rows of the matrices handed to fit_svd, and the matrices: one to three
\* rows, with right singular vectors among UnitVectors
FitRows == {<<4, 1>>, <<4, -1>>, <<0, 0>>, <<3, -4>>, <<-4, 0>>, <<0, 3>>}
FitInputs ==
    {A \in UNION {{Mat(n, 2, 1, [<<i, j>> \in (1..n) \X (1..2) |-> p[i][j]]) :
                      p \in [1..n -> FitRows]} : n \in {1, 2, 3}} :
        Svd(A) # {}}

InitFitValues ==
    /\ Vn \in FitInputs
    /\ fitted = None
    /\ Zq = NoMatrix
    /\ feats = None
    /\ calls = None
    /\ ests = None
    /\ run = None
    /\ orch = None
    /\ X = NoMatrix
    /\ labels = NoLabels
    /\ rank = 1
    /\ pc = "idle"
    /\ proj = None
    /\ quad = None
    /\ energy = None
    /\ model = None
    /\ model0 = None
    /\ fs = None
    /\ savePc = "idle"
    /\ loaded = None
    /\ Vin = NoMatrix
    /\ Zout = None
    /\ fitIn = None
    /\ fitOut = None

\* model = fit_svd(Vn, k=k, method=method)
FitValues ==
    /\ fitted.status = "none"
    /\ \E k \in 1..MaxComps, method \in Methods :
         \E res \in fit_svd_values(Vn, k, method) :
            fitted' = res @@ [k |-> k, method |-> method]
    /\ UNCHANGED <<Vn, Zq, feats, calls, ests, run, orch,
                   projVars, storeVars, fitVars>>

NextFitValues == FitValues

-----------------------------------------------------------------------------
(* q4/svd_ops.py: fit_svd called by concurrent callers *)

\* the callers, each in a fit_svd call of its own
Callers == {1, 2}

\* the arguments of a call: shape of Vn, k and method
CallArgs == [n : {2, 3, 8}, d : {2, 3}, k : {1, 2}, method : Methods]

\* the estimator object a call works on: svd = TruncatedSVD(..) or
\* svd = IncrementalPCA(..) binds a new object to a local name
SharedSlot(c) == 1
EstimatorSlot(c) == c

InitConc ==
    /\ \E a \in [Callers -> CallArgs] :
         /\ \A c1, c2 \in Callers : c1 # c2 => a[c1] # a[c2]
         /\ calls = [c \in Callers |->
                        [pc |-> "called", args |-> a[c], path |-> "",
                         result |-> None]]
    /\ ests = [c \in Callers |-> [kind |-> "none"]]
    /\ Zq = NoMatrix
    /\ feats = None
    /\ Vn = NoMatrix
    /\ fitted = None
    /\ run = None
    /\ orch = None
    /\ X = NoMatrix
    /\ labels = NoLabels
    /\ rank = 1
    /\ pc = "idle"
    /\ proj = None
    /\ quad = None
    /\ energy = None
    /\ model = None
    /\ model0 = None
    /\ fs = None
    /\ savePc = "idle"
    /\ loaded = None
    /\ Vin = NoMatrix
    /\ Zout = None
    /\ fitIn = None
    /\ fitOut = None

\* if method == "auto": .. : the branch is a local of the call
SelectBranch ==
    /\ \E c \in Callers :
         /\ calls[c].pc = "called"
         /\ calls' = [calls EXCEPT
                ![c].pc = "selected",
                ![c].path = SelectMethod(calls[c].args.n, calls[c].args.d,
                                         calls[c].args.method)]
    /\ UNCHANGED <<ests, Zq, feats, Vn, fitted, run, orch,
                   projVars, storeVars, fitVars>>

\* svd = TruncatedSVD(n_components=k, ..) or IncrementalPCA(n_components=k, ..)
Construct ==
    /\ \E c \in Callers :
         /\ calls[c].pc = "selected"
         /\ ests' = [ests EXCEPT ![EstimatorSlot(c)] =
                        [kind |-> IF calls[c].path = "incremental"
                                  THEN "IncrementalPCA" ELSE "TruncatedSVD",
                         n_components |-> calls[c].args.k,
                         fitted |-> FALSE]]
         /\ calls' = [calls EXCEPT ![c].pc = "constructed"]
    /\ UNCHANGED <<Zq, feats, Vn, fitted, run, orch,
                   projVars, storeVars, fitVars>>

\* svd.fit_transform(Vn): sets the attributes of the estimator, or raises
FitTransform ==
    /\ \E c \in Callers :
         /\ calls[c].pc = "constructed"
         /\ LET est == ests[EstimatorSlot(c)]
                res == IF est.kind = "IncrementalPCA"
                       THEN IncrementalPCA(calls[c].args.n, calls[c].args.d,
                                           est.n_components)
                       ELSE TruncatedSVD(calls[c].args.n, calls[c].args.d,
                                         est.n_components)
            IN IF res.status = "error"
               THEN /\ calls' = [calls EXCEPT
                          ![c].pc = "raised",
                          ![c].result = [status |-> "error",
                                         path |-> calls[c].path,
                                         error |-> res.error]]
                    /\ UNCHANGED ests
               ELSE /\ ests' = [ests EXCEPT ![EstimatorSlot(c)] =
                          [kind |-> est.kind,
                           n_components |-> est.n_components,
                           fitted |-> TRUE,
                           components_shape |-> res.components_shape,
                           explained_variance_shape |->
                               res.explained_variance_shape]]
                    /\ calls' = [calls EXCEPT ![c].pc = "fitted"]
    /\ UNCHANGED <<Zq, feats, Vn, fitted, run, orch,
                   projVars, storeVars, fitVars>>

\* return SVDModel(mu=np.zeros(Vn.shape[1]), components=svd.components_,
\* explained_var=svd.explained_variance_)
ReturnModel ==
    /\ \E c \in Callers :
         /\ calls[c].pc = "fitted"
         /\ calls' = [calls EXCEPT
                ![c].pc = "returned",
                ![c].result =
                    [status |-> "ok", path |-> calls[c].path,
                     model |-> [mu |-> Zeros(calls[c].args.d),
                                components_shape |->
                                    ests[EstimatorSlot(c)].components_shape,
                                explained_var_shape |->
                                    ests[EstimatorSlot(c)]
                                        .explained_variance_shape]]]
    /\ UNCHANGED <<ests, Zq, feats, Vn, fitted, run, orch,
                   projVars, storeVars, fitVars>>

NextConc == SelectBranch \/ Construct \/ FitTransform \/ ReturnModel

-----------------------------------------------------------------------------
(* fargate_processor.py: main, process_q4_scientific_fargate *)

\* the environment variables main and the run read
EnvVars ==
    {"INPUT_KEY", "RUN_ID", "ARCHIVE_BUCKET", "ARTIFACTS_BUCKET",
     "DONE_QUEUE_URL"}

\* PROCESSING_MODE as set in the environment ("" if it is not set)
ModeSettings == {"", "standard", "enhanced", "full"}

\* suffix of the input key, and what the file holds: rows of finite
\* numbers, a header without rows, or rows with non-finite entries
FileTypes == {".csv", ".parquet", ".txt"}
FileData == {"rows", "no_rows", "non_finite"}

\* the attributes and methods of the dataclass SVDModel
SVDModelProvides == {"mu", "components", "explained_var", "save", "load"}

\* what the SVD step uses of svd_model, in the order of use
SvdStepUses == <<"mu", "to_dict", "explained_variance", "explained_variance">>

\* the SVD step of a run: skipped in mode standard; else it centres, fits,
\* overwrites mu, projects and asks the model for what SvdStepUses lists,
\* and the first name the model does not provide raises AttributeError
SvdStep(mode) ==
    LET missing == {i \in DOMAIN SvdStepUses :
                       SvdStepUses[i] \notin SVDModelProvides}
    IN IF mode \notin {"enhanced", "full"}
       THEN [status |-> "skipped", svd_analysis |-> FALSE]
       ELSE IF missing # {}
       THEN [status |-> "error", error |-> "AttributeError",
             name |-> SvdStepUses[CHOOSE i \in missing :
                                     \A t \in missing : i <= t]]
       ELSE [status |-> "ok", svd_analysis |-> TRUE]

\* get_env_var(name): the variable is set and not empty
EnvSet(name) == name \notin run.unset

\* an exception raised inside the try block of the run: the except clause
\* of the run is next
RaisedUnhandled(at, err) ==
    [run EXCEPT !.pc = "main_except", !.raised = at, !.error = err]
Raised(at, err) == [run EXCEPT !.pc = "except", !.raised = at, !.error = err]

InitRun ==
    /\ \E mode \in ModeSettings, unset \in {{}} \cup {{v} : v \in EnvVars},
          ftype \in FileTypes, data \in FileData :
         run = [pc |-> "main", setting |-> mode, mode |-> "", unset |-> unset,
                ftype |-> ftype, data |-> data, stored |-> << >>,
                listed |-> {}, svd_analysis |-> FALSE, svd |-> "none",
                raised |-> "", error |-> "", errorPut |-> "none",
                manifest |-> None,
                notified |-> FALSE, exit |-> -1]
    /\ orch = None
    /\ Zq = NoMatrix
    /\ feats = None
    /\ Vn = NoMatrix
    /\ fitted = None
    /\ calls = None
    /\ ests = None
    /\ X = NoMatrix
    /\ labels = NoLabels
    /\ rank = 1
    /\ pc = "idle"
    /\ proj = None
    /\ quad = None
    /\ energy = None
    /\ model = None
    /\ model0 = None
    /\ fs = None
    /\ savePc = "idle"
    /\ loaded = None
    /\ Vin = NoMatrix
    /\ Zout = None
    /\ fitIn = None
    /\ fitOut = None

\* main: INPUT_KEY, RUN_ID and PROCESSING_MODE (default 'standard')
MainStart ==
    /\ run.pc = "main"
    /\ run' = IF EnvSet("INPUT_KEY") /\ EnvSet("RUN_ID")
              THEN [run EXCEPT !.pc = "buckets",
                               !.mode = IF run.setting = "" THEN "standard"
                                        ELSE run.setting]
              ELSE [run EXCEPT !.pc = "main_except", !.raised = "main",
                               !.error = "ValueError"]
    /\ UNCHANGED <<Zq, feats, Vn, fitted, calls, ests, orch,
                   projVars, storeVars, fitVars>>

\* the run reads ARCHIVE_BUCKET and ARTIFACTS_BUCKET before its try block
ReadBuckets ==
    /\ run.pc = "buckets"
    /\ run' = IF EnvSet("ARCHIVE_BUCKET") /\ EnvSet("ARTIFACTS_BUCKET")
              THEN [run EXCEPT !.pc = "download"]
              ELSE [run EXCEPT !.pc = "main_except", !.raised = "buckets",
                               !.error = "ValueError"]
    /\ UNCHANGED <<Zq, feats, Vn, fitted, calls, ests, orch,
                   projVars, storeVars, fitVars>>

\* s3_client.get_object(Bucket=archive_bucket, Key=input_key)
Download ==
    /\ run.pc = "download"
    /\ \E ok \in BOOLEAN :
         run' = IF ok THEN [run EXCEPT !.pc = "parse"]
                ELSE Raised("download", "ClientError")
    /\ UNCHANGED <<Zq, feats, Vn, fitted, calls, ests, orch,
                   projVars, storeVars, fitVars>>

\* pd.read_csv / pd.read_parquet, or ValueError for another file type
Parse ==
    /\ run.pc = "parse"
    /\ run' = IF run.ftype \in {".csv", ".parquet"}
              THEN [run EXCEPT !.pc = "analyse"]
              ELSE Raised("parse", "ValueError")
    /\ UNCHANGED <<Zq, feats, Vn, fitted, calls, ests, orch,
                   projVars, storeVars, fitVars>>

\* learn_projectors_linear, four_quadrants, energy_split on the data
Analyse ==
    /\ run.pc = "analyse"
    /\ run' = IF run.data = "non_finite"
              THEN Raised("analyse", "LinAlgError")
              ELSE [run EXCEPT !.pc = "svd"]
    /\ UNCHANGED <<Zq, feats, Vn, fitted, calls, ests, orch,
                   projVars, storeVars, fitVars>>

\* the SVD step; the model is stored under svd_model.json when the step
\* gets that far
Enhance ==
    /\ run.pc = "svd"
    /\ \E ok \in BOOLEAN :
         LET step == SvdStep(run.mode) IN
         run' = IF step.status = "error"
                THEN [Raised("svd", step.error) EXCEPT !.svd = "error"]
                ELSE IF step.status = "skipped"
                THEN [run EXCEPT !.pc = "put_keep", !.svd = "skipped"]
                ELSE IF ok
                THEN [run EXCEPT !.pc = "put_keep", !.svd = "ok",
                                 !.svd_analysis = step.svd_analysis,
                                 !.stored = Append(@, "svd_model.json")]
                ELSE Raised("svd", "ClientError")
    /\ UNCHANGED <<Zq, feats, Vn, fitted, calls, ests, orch,
                   projVars, storeVars, fitVars>>

\* Q_keep.csv is stored if Q_keep.size > 0
PutKeep ==
    /\ run.pc = "put_keep"
    /\ \E ok \in BOOLEAN :
         run' = IF run.data = "no_rows"
                THEN [run EXCEPT !.pc = "put_discard"]
                ELSE IF ok
                THEN [run EXCEPT !.pc = "put_discard",
                                  !.stored = Append(@, "Q_keep.csv"),
                                  !.listed = @ \cup {"Q_keep.csv"}]
                ELSE Raised("put_keep", "ClientError")
    /\ UNCHANGED <<Zq, feats, Vn, fitted, calls, ests, orch,
                   projVars, storeVars, fitVars>>

\* Q_discard.csv is stored if Q_discard.size > 0
PutDiscard ==
    /\ run.pc = "put_discard"
    /\ \E ok \in BOOLEAN :
         run' = IF run.data = "no_rows"
                THEN [run EXCEPT !.pc = "put_study"]
                ELSE IF ok
                THEN [run EXCEPT !.pc = "put_study",
                                  !.stored = Append(@, "Q_discard.csv"),
                                  !.listed = @ \cup {"Q_discard.csv"}]
                ELSE Raised("put_discard", "ClientError")
    /\ UNCHANGED <<Zq, feats, Vn, fitted, calls, ests, orch,
                   projVars, storeVars, fitVars>>

\* Q_study.json is stored
PutStudy ==
    /\ run.pc = "put_study"
    /\ \E ok \in BOOLEAN :
         run' = IF ok
                THEN [run EXCEPT !.pc = "put_er",
                             !.stored = Append(@, "Q_study.json"),
                             !.listed = @ \cup {"Q_study.json"}]
                ELSE Raised("put_study", "ClientError")
    /\ UNCHANGED <<Zq, feats, Vn, fitted, calls, ests, orch,
                   projVars, storeVars, fitVars>>

\* er.json is stored; the ratios divide by the number of rows
PutEr ==
    /\ run.pc = "put_er"
    /\ \E ok \in BOOLEAN :
         run' = IF run.data = "no_rows"
                THEN Raised("put_er", "ZeroDivisionError")
                ELSE IF ok
                THEN [run EXCEPT !.pc = "put_manifest",
                                 !.stored = Append(@, "er.json"),
                                 !.listed = @ \cup {"er.json"}]
                ELSE Raised("put_er", "ClientError")
    /\ UNCHANGED <<Zq, feats, Vn, fitted, calls, ests, orch,
                   projVars, storeVars, fitVars>>

\* MANIFEST.json is stored and the manifest returned to main
PutManifest ==
    /\ run.pc = "put_manifest"
    /\ \E ok \in BOOLEAN :
         run' = IF ok
                THEN [run EXCEPT
                        !.pc = "returned",
                        !.stored = Append(@, "MANIFEST.json"),
                        !.manifest = [status |-> "completed",
                                      files |-> run.listed,
                                      processing_mode |-> run.mode,
                                      svd_analysis |-> run.svd_analysis]]
                ELSE Raised("put_manifest", "ClientError")
    /\ UNCHANGED <<Zq, feats, Vn, fitted, calls, ests, orch,
                   projVars, storeVars, fitVars>>

\* except Exception as e: ERROR.json is stored, then raise e; if the store
\* fails its exception goes to main instead
HandleError ==
    /\ run.pc = "except"
    /\ \E ok \in BOOLEAN :
         run' = IF ok
                THEN [run EXCEPT !.pc = "main_except",
                                 !.errorPut = "stored",
                                 !.stored = Append(@, "ERROR.json")]
                ELSE [run EXCEPT !.pc = "main_except",
                                 !.errorPut = "failed"]
    /\ UNCHANGED <<Zq, feats, Vn, fitted, calls, ests, orch,
                   projVars, storeVars, fitVars>>

\* send_completion_notification: a failure is printed and swallowed
Notify ==
    /\ run.pc = "returned"
    /\ \E ok \in BOOLEAN :
         run' = [run EXCEPT !.pc = "notify_done",
                            !.notified = ok /\ EnvSet("DONE_QUEUE_URL")]
    /\ UNCHANGED <<Zq, feats, Vn, fitted, calls, ests, orch,
                   projVars, storeVars, fitVars>>

\* main: sys.exit(0)
ExitOk ==
    /\ run.pc = "notify_done"
    /\ run' = [run EXCEPT !.pc = "done", !.exit = 0]
    /\ UNCHANGED <<Zq, feats, Vn, fitted, calls, ests, orch,
                   projVars, storeVars, fitVars>>

\* main: except Exception: sys.exit(1)
ExitFailed ==
    /\ run.pc = "main_except"
    /\ run' = [run EXCEPT !.pc = "done", !.exit = 1]
    /\ UNCHANGED <<Zq, feats, Vn, fitted, calls, ests, orch,
                   projVars, storeVars, fitVars>>

NextJob ==
    \/ MainStart
    \/ ReadBuckets
    \/ Download
    \/ Parse
    \/ Analyse
    \/ Enhance
    \/ PutKeep
    \/ PutDiscard
    \/ PutStudy
    \/ PutEr
    \/ PutManifest
    \/ HandleError
    \/ Notify
    \/ ExitOk
    \/ ExitFailed

-----------------------------------------------------------------------------
(* orchestrator.py: lambda_handler, launch_fargate_task *)

\* the records of an event: a body that is not JSON, a message without
\* input_key, or a message with input_key and a processing_mode ("" if the
\* message has none)
RecordKinds ==
    {[body |-> "not_json"], [body |-> "no_input_key"]}
       \cup {[body |-> "message", processing_mode |-> pm] :
                pm \in {"", "standard", "enhanced", "full"}}

RECURSIVE SeqsUpTo(_, _)
\* the sequences over S of length up to n
SeqsUpTo(S, n) ==
    IF n = 0 THEN {<< >>}
    ELSE LET shorter == SeqsUpTo(S, n - 1)
         IN shorter \cup {Append(q, x) : q \in shorter, x \in S}

\* what ecs_client.run_task does: it starts the task, raises, or returns
\* without a task (tasks = [], failures filled in)
RunTaskOutcomes == {"started", "ClientError", "no_task"}

\* where the handler sends a message of the given mode: both branches of
\* the handler call launch_fargate_task
StrategyLambdaForStandard(processing_mode) ==
    IF processing_mode \in {"enhanced", "full"} THEN "fargate" ELSE "lambda"
Strategy(processing_mode) ==
    IF processing_mode \in {"enhanced", "full"} THEN "fargate" ELSE "fargate"

\* the response of the except clause
Error500(err) == [statusCode |-> 500, error |-> err]

InitOrch ==
    /\ \E recs \in SeqsUpTo(RecordKinds, MaxRecords), hasRecords \in BOOLEAN :
         /\ ~hasRecords => recs = << >>
         /\ orch = [pc |-> "invoked", hasRecords |-> hasRecords,
                     records |-> recs, i |-> 1, processing_mode |-> "",
                     launched_tasks |-> << >>, ecs |-> << >>,
                     response |-> None]
    /\ run = None
    /\ Zq = NoMatrix
    /\ feats = None
    /\ Vn = NoMatrix
    /\ fitted = None
    /\ calls = None
    /\ ests = None
    /\ X = NoMatrix
    /\ labels = NoLabels
    /\ rank = 1
    /\ pc = "idle"
    /\ proj = None
    /\ quad = None
    /\ energy = None
    /\ model = None
    /\ model0 = None
    /\ fs = None
    /\ savePc = "idle"
    /\ loaded = None
    /\ Vin = NoMatrix
    /\ Zout = None
    /\ fitIn = None
    /\ fitOut = None

\* lambda_handler: launched_tasks = []; for record in event['Records']
HandlerStart ==
    /\ orch.pc = "invoked"
    /\ orch' = IF orch.hasRecords
               THEN [orch EXCEPT !.pc = "loop"]
               ELSE [orch EXCEPT !.pc = "responded",
                                 !.response = Error500("KeyError")]
    /\ UNCHANGED <<Zq, feats, Vn, fitted, calls, ests, run,
                   projVars, storeVars, fitVars>>

\* one record: json.loads(record['body']), message_body['input_key'],
\* processing_mode with its default
ParseRecord ==
    /\ orch.pc = "loop"
    /\ orch.i <= Len(orch.records)
    /\ LET rec == orch.records[orch.i] IN
         orch' = IF rec.body = "not_json"
                 THEN [orch EXCEPT !.pc = "responded",
                                   !.response = Error500("JSONDecodeError")]
                 ELSE IF rec.body = "no_input_key"
                 THEN [orch EXCEPT !.pc = "responded",
                                   !.response = Error500("KeyError")]
                 ELSE [orch EXCEPT
                         !.pc = "launch",
                         !.processing_mode =
                             IF rec.processing_mode = "" THEN "standard"
                             ELSE rec.processing_mode]
    /\ UNCHANGED <<Zq, feats, Vn, fitted, calls, ests, run,
                   projVars, storeVars, fitVars>>

\* task_info = launch_fargate_task(..); launched_tasks.append(task_info)
LaunchTask ==
    /\ orch.pc = "launch"
    /\ \E outcome \in RunTaskOutcomes :
         LET task == [record |-> orch.i,
                      processing_mode |-> orch.processing_mode]
         IN orch' =
              IF Strategy(orch.processing_mode) # "fargate"
              THEN [orch EXCEPT !.pc = "loop", !.i = @ + 1]
              ELSE IF outcome = "started"
              THEN [orch EXCEPT !.pc = "loop", !.i = @ + 1,
                                !.ecs = Append(@, task),
                                !.launched_tasks = Append(@, task)]
              ELSE IF outcome = "no_task"
              THEN [orch EXCEPT !.pc = "responded",
                                !.response = Error500("IndexError")]
              ELSE [orch EXCEPT !.pc = "responded",
                                !.response = Error500("ClientError")]
    /\ UNCHANGED <<Zq, feats, Vn, fitted, calls, ests, run,
                   projVars, storeVars, fitVars>>

\* return {'statusCode': 200, ..} with the number of launched tasks
ReturnOk ==
    /\ orch.pc = "loop"
    /\ orch.i > Len(orch.records)
    /\ orch' = [orch EXCEPT
                  !.pc = "responded",
                  !.response = [statusCode |-> 200,
                                count |-> Len(orch.launched_tasks)]]
    /\ UNCHANGED <<Zq, feats, Vn, fitted, calls, ests, run,
                   projVars, storeVars, fitVars>>

NextOrch == HandlerStart \/ ParseRecord \/ LaunchTask \/ ReturnOk

SpecProj == InitProj /\ [][NextProj]_vars

SpecInvalid == InitInvalid /\ [][NextRun]_vars

SpecStore == InitStore /\ [][NextStore]_vars

SpecFit == InitFit /\ [][NextFit]_vars

SpecQStudy == InitQStudy /\ [][NextQStudy]_vars

SpecFitValues == InitFitValues /\ [][NextFitValues]_vars

SpecConc == InitConc /\ [][NextConc]_vars

SpecRun == InitRun /\ [][NextJob]_vars

SpecOrch == InitOrch /\ [][NextOrch]_vars

Init == InitProj \/ InitInvalid \/ InitStore \/ InitFit \/ InitQStudy
           \/ InitFitValues \/ InitConc \/ InitRun
           \/ InitOrch

Next == NextProj \/ NextStore \/ NextFit \/ NextQStudy
           \/ NextFitValues \/ NextConc \/ NextJob
           \/ NextOrch

Spec == Init /\ [][Next]_vars

-----------------------------------------------------------------------------
(* Properties of the projector pipeline *)

\* the case the projector invariants are stated for: n >= 2, d >= 2
Learned == proj.status = "ok" /\ X.r >= 2 /\ X.c >= 2

OffDiagonal(P) == \E i, j \in 1..P.r : i # j /\ P.e[i, j] # 0

\* C1: completeness. Whenever learn_projectors_linear has returned for an X
\* with n >= 2 and d >= 2 (with or without labels, any rank), Ps + Pv is the
\* d x d identity.
C1_Completeness ==
    Learned => SameValues(NpAdd(proj.Ps, proj.Pv), Eye(X.c))

\* a supervised run on a 2 x 3 matrix whose Vt has fewer rows than columns
C1_Witness ==
    /\ Learned
    /\ labels # NoLabels
    /\ X.r < X.c
    /\ ~IsZero(proj.Pv)
    /\ ~IsZero(proj.Ps)

\* C2: idempotence. Both returned projectors satisfy P @ P = P.
C2_Idempotence ==
    Learned =>
        /\ SameValues(MatMul(proj.Ps, proj.Ps), proj.Ps)
        /\ SameValues(MatMul(proj.Pv, proj.Pv), proj.Pv)

\* an unsupervised run returning a projector onto a direction off the axes
C2_Witness ==
    /\ Learned
    /\ labels = NoLabels
    /\ rank = 1
    /\ OffDiagonal(proj.Pv)
    /\ OffDiagonal(proj.Ps)

\* C3: the returned pair consists of symmetric d x d matrices and
\* Ps @ Pv = 0.
C3_OrthogonalSymmetric ==
    Learned =>
        /\ proj.Ps.r = X.c /\ proj.Ps.c = X.c
        /\ proj.Pv.r = X.c /\ proj.Pv.c = X.c
        /\ SameValues(proj.Ps, Transpose(proj.Ps))
        /\ SameValues(proj.Pv, Transpose(proj.Pv))
        /\ IsZero(MatMul(proj.Ps, proj.Pv))

\* a rank-2 variant projector in three dimensions, off the axes
C3_Witness ==
    /\ Learned
    /\ X.c = 3
    /\ rank = 2
    /\ OffDiagonal(proj.Pv)
    /\ ~IsZero(proj.Ps)

\* |ratio - 1| <= 0.01
NearOne(ratio) ==
    EnergyTolInv * Abs(ratio.num - ratio.den) <= ratio.den

\* (X**2).sum() in squared units (X has denominator 1)
Energy(A) == SumSqNum(A)

\* C4 as stated: energy_split of X with the pair learned on X is within 0.01
\* of 1.0 for every finite X, also for X of zero or near-zero energy.
C4_AlwaysNearOne ==
    energy.status = "ok" => NearOne(energy.ratio)

\* C4 as amended: energy_split equals |X|^2 / (|X|^2 + 1e-12); it is within
\* 0.01 of 1.0 exactly when |X|^2 >= 99e-12, and it is 0 for X = 0.
C4_NearOneAboveGuard ==
    energy.status = "ok" =>
        /\ energy.ratio.num * (Energy(X) + EnergyEps)
              = energy.ratio.den * Energy(X)
        /\ NearOne(energy.ratio)
              <=> Energy(X) >= (EnergyTolInv - 1) * EnergyEps

\* an X of enough energy, split by a projector off the axes, conserving energy
C4_Witness ==
    /\ energy.status = "ok"
    /\ Energy(X) >= (EnergyTolInv - 1) * EnergyEps
    /\ OffDiagonal(proj.Pv)
    /\ NearOne(energy.ratio)

SameShape(A, B) == A.r = B.r /\ A.c = B.c

\* C8: Q_keep, Q_discard, S and V returned by four_quadrants have the shape
\* (n, d) of X.
C8_QuadrantShapes ==
    quad.status = "ok" =>
        /\ SameShape(quad.q.Q_keep, X)
        /\ SameShape(quad.q.Q_discard, X)
        /\ SameShape(quad.q.S, X)
        /\ SameShape(quad.q.V, X)

\* a split of a non-square X with a non-zero discard component
C8_Witness ==
    /\ quad.status = "ok"
    /\ X.r # X.c
    /\ ~IsZero(quad.q.Q_discard)
    /\ ~IsZero(quad.q.Q_keep)

\* rows of Q whose L2 norm exceeds 1e-8
LoudRows(Q) ==
    {i \in 1..Q.r : ~(RowSqNum(Q, i) <= (Q.q * Q.q) \div NormTolInvSq)}

\* C9: Q_study.rate lies in [0, 1] and is the number of rows of Q_discard
\* with L2 norm above 1e-8, divided by n.
C9_RateInUnitInterval ==
    quad.status = "ok" =>
        LET rate == quad.q.Q_study.rate IN
        /\ rate.den > 0
        /\ 0 <= rate.num
        /\ rate.num <= rate.den
        /\ rate.num * X.r = rate.den * Cardinality(LoudRows(quad.q.Q_discard))

\* a split in which some but not all rows carry a discard component
C9_Witness ==
    /\ quad.status = "ok"
    /\ quad.q.Q_study.rate.num > 0
    /\ quad.q.Q_study.rate.num < quad.q.Q_study.rate.den

\* C17: for every valid X of width d >= 1, d = 1 included, Q_study.mu_V is
\* a list of exactly d numbers and Q_study.rate is a float.
C17_ReportShape ==
    quad.status = "ok" =>
        /\ quad.q.Q_study.mu_V.kind = "list"
        /\ Len(quad.q.Q_study.mu_V.num) = X.c
        /\ quad.q.Q_study.rate.den > 0

\* entry j of mu_V, whether it came out as a list or as a bare number
MuAt(mu, j) == IF mu.kind = "float" THEN mu.num ELSE mu.num[j]

\* C18: as four_quadrants returns them, Q_keep equals S = X @ Ps.T, and
\* Q_discard is V = X @ Pv.T minus the column mean of V: every column of
\* Q_discard sums to zero and Q_discard[i] + mu_V = V[i] for every row i.
C18_DiscardRecentred ==
    (quad.status = "ok" /\ quad.writes = 0) =>
        LET q == quad.q
            mu == q.Q_study.mu_V
        IN /\ SameValues(q.S, MatMul(X, Transpose(proj.Ps)))
           /\ SameValues(q.V, MatMul(X, Transpose(proj.Pv)))
           /\ SameValues(q.Q_keep, q.S)
           /\ \A j \in 1..X.c :
                 SumFn([i \in 1..X.r |-> q.Q_discard.e[i, j]], X.r) = 0
           /\ \A i \in 1..X.r, j \in 1..X.c :
                 (q.Q_discard.e[i, j] * mu.den + MuAt(mu, j) * q.Q_discard.q)
                        * q.V.q
                    = q.V.e[i, j] * q.Q_discard.q * mu.den

\* a split whose discard component has a non-zero mean that was removed
C18_Witness ==
    /\ quad.status = "ok"
    /\ quad.writes = 0
    /\ X.r = 3
    /\ \E j \in 1..X.c : MuAt(quad.q.Q_study.mu_V, j) # 0
    /\ ~IsZero(quad.q.Q_discard)
    /\ ~IsZero(quad.q.Q_keep)
    /\ ~SameValues(quad.q.Q_discard, quad.q.V)

\* the array objects of the result of the given call
ArraysOf(q, call) == {ArrayOf(q, call, f) : f \in DOMAIN q.buf}

\* C19: four_quadrants leaves X, Ps and Pv as they are; the arrays of a
\* result are shared neither with the inputs nor with the result of an
\* earlier call, and Q_keep is not S, so a write into Q_keep changes neither
\* S nor the inputs nor an earlier result; a call made after such a write
\* returns a Q_keep equal to S again.
C19_PurelyFunctional ==
    /\ [](quad.status = "ok" =>
            /\ ArraysOf(quad.q, quad.call)
                  \cap {<<0, a>> : a \in InputArrays} = {}
            /\ \A t \in DOMAIN quad.prev :
                  ArraysOf(quad.q, quad.call) \cap ArraysOf(quad.prev[t], t)
                     = {}
            /\ ArrayOf(quad.q, quad.call, "Q_keep")
                  # ArrayOf(quad.q, quad.call, "S"))
    /\ [][quad' # quad =>
            /\ X' = X
            /\ proj' = proj
            /\ quad.status = "ok" =>
                  IF quad'.call = quad.call
                  THEN /\ quad'.q.S = quad.q.S
                       /\ quad'.q.V = quad.q.V
                       /\ quad'.q.Q_discard = quad.q.Q_discard
                       /\ quad'.prev = quad.prev
                  ELSE /\ SameValues(quad'.q.Q_keep, quad'.q.S)
                       /\ quad'.q.S = quad.q.S]_vars

\* a second call whose Q_keep was written to and now differs from its S,
\* next to a first result that was written to as well
C19_Witness ==
    /\ quad.status = "ok"
    /\ quad.call = 2
    /\ quad.writes = 1
    /\ ~SameValues(quad.q.Q_keep, quad.q.S)
    /\ ~SameValues(quad.prev[1].Q_keep, quad.prev[1].S)

\* rows of the matrix that is decomposed: the rows of X without labels, one
\* row per distinct label with labels
DecomposedRows ==
    IF labels = NoLabels THEN X.r ELSE Cardinality(Unique(labels))

\* C20 as amended: a call with rank >= 1 on a valid X does not fail; Bv has
\* shape (d, min(rank, m, d)), m being the number of rows decomposed; and
\* Pv = identity(d) with Ps = 0 is returned exactly when min(rank, m) >= d.
C20_RankCappedByRows ==
    pc # "start" =>
        /\ proj.status = "ok"
        /\ proj.BvShape = <<X.c, Min(Min(rank, DecomposedRows), X.c)>>
        /\ (SameValues(proj.Pv, Eye(X.c)) /\ IsZero(proj.Ps))
              <=> Min(rank, DecomposedRows) >= X.c

\* rank 3 on a 3 x 2 matrix without labels: Pv is the identity
C20_Witness ==
    /\ proj.status = "ok"
    /\ labels = NoLabels
    /\ X.r = 3 /\ X.c = 2
    /\ rank = 3
    /\ ~IsZero(X)
    /\ SameValues(proj.Pv, Eye(X.c))
    /\ IsZero(proj.Ps)
    /\ proj.BvShape = <<2, 2>>

\* C20 as stated: for every valid X, with or without labels, a call with rank >= d
\* does not fail and returns Pv = identity(d) and Ps = 0, and the variant
\* basis Bv has shape (d, rank) for every rank.
C20_RankAtLeastWidth ==
    pc # "start" =>
        /\ proj.status = "ok"
        /\ proj.BvShape = <<X.c, rank>>
        /\ rank >= X.c =>
              /\ SameValues(proj.Pv, Eye(X.c))
              /\ IsZero(proj.Ps)

-----------------------------------------------------------------------------
(* Properties of save and load *)

\* C5: a load made after a completed save succeeds and returns mu,
\* components and explained_var equal to those of the saved model, and the
\* model in memory is still the one save was called on.
C5_SaveLoadRoundTrip ==
    /\ savePc # "idle" => model = model0
    /\ (loaded.status # "none" /\ loaded.at = "done") =>
          /\ loaded.status = "ok"
          /\ loaded.model.mu = model.mu
          /\ loaded.model.components = model.components
          /\ loaded.model.explained_var = model.explained_var

\* a 2 x 2 model with an overwritten mu, saved and loaded back
C5_Witness ==
    /\ loaded.status = "ok"
    /\ loaded.at = "done"
    /\ model.mu # Zeros(Len(model.mu.v))
    /\ Shape(model.components) = <<2, 2>>
    /\ model.components.v[1][2] # model.components.v[2][1]
    /\ model.explained_var.v[1] # model.explained_var.v[2]

\* the directory holds what a completed save of model m leaves in it
SavedContent(m, name) ==
    IF name = "mu.npy" THEN NpSave(m.mu)
    ELSE IF name = "components.npy" THEN NpSave(m.components)
    ELSE IF name = "explained_var.npy" THEN NpSave(m.explained_var)
    ELSE MetaOf(m)

\* all four artifacts are there and whole, and the metadata record agrees
\* with the shapes of the arrays
Intact(files) ==
    /\ \A name \in FileNames : files[name] \notin {Absent, Partial}
    /\ files["meta.json"].dims = files["mu.npy"].shape[1]
    /\ files["meta.json"].dims = files["components.npy"].shape[2]
    /\ files["meta.json"].k = files["components.npy"].shape[1]
    /\ files["meta.json"].k = files["explained_var.npy"].shape[1]

\* C14: a load from a directory in which an artifact is missing or
\* malformed, or whose metadata record disagrees with the array shapes,
\* fails with SerializationError and returns no model.
C14_BrokenDirectoryRejected ==
    (loaded.status # "none" /\ ~Intact(loaded.seen)) =>
        /\ loaded.status = "error"
        /\ loaded.error = "SerializationError"

\* C15: at every point of a save, interrupted or not, and in every load
\* that overlaps it, each artifact is absent or holds the complete content
\* save writes for it; none is seen partially written.
C15_PerArtifactAtomic ==
    /\ \A name \in FileNames :
          fs.files[name] = Absent
             \/ (savePc # "idle" /\ fs.files[name] = SavedContent(model, name))
    /\ loaded.status # "none" =>
          \A name \in FileNames : loaded.seen[name] # Partial

\* the .npy file of the name holds the complete array of the model
ArrayWritten(name) ==
    /\ fs.files[name] # Absent
    /\ fs.files[name] # Partial
    /\ NpLoad(fs.files[name])
          = (IF name = "mu.npy" THEN model.mu
             ELSE IF name = "components.npy" THEN model.components
             ELSE model.explained_var)

\* C25: at every point of a save into an empty directory, stopped part-way
\* or not, a file exists only if the files before it in the order mu.npy,
\* components.npy, explained_var.npy, meta.json are completely written; in
\* particular meta.json exists only after the three arrays, and once
\* written it holds dims = length of mu and k = number of component rows.
C25_MetaLast ==
    /\ fs.files["components.npy"] # Absent => ArrayWritten("mu.npy")
    /\ fs.files["explained_var.npy"] # Absent => ArrayWritten("components.npy")
    /\ fs.files["meta.json"] # Absent =>
          \A name \in {"mu.npy", "components.npy", "explained_var.npy"} :
              ArrayWritten(name)
    /\ fs.files["meta.json"] \notin {Absent, Partial} =>
          /\ fs.files["meta.json"].dims = Len(model.mu.v)
          /\ fs.files["meta.json"].k = Len(model.components.v)

\* a finished save of a model whose mu is shorter than its components are
\* many
C25_Witness ==
    /\ savePc = "done"
    /\ fs.files["meta.json"] \notin {Absent, Partial}
    /\ Len(model.mu.v) < Len(model.components.v)

-----------------------------------------------------------------------------
(* Properties of project *)

\* the width of V is the length of mu and the width of components
Fits ==
    /\ Vin.c = Len(model.mu.v)
    /\ Vin.c = Len(model.components.v[1])

\* a call of project has just returned or raised
Projected == Zout' # Zout /\ Zout'.status # "none"

\* sum over c of (V[i][c] - mu[c]) * components[j][c]
Projection(v, m, i, j) ==
    SumFn([c \in 1..v.c |-> (v.e[i, c] - m.mu.v[c]) * m.components.v[j][c]],
          v.c)

\* C12 (project): a call of project with a V whose width differs from the
\* length of mu or from the width of components fails with
\* DimensionMismatch; nothing is broadcast into a result.
C12_DimensionMismatchRejected ==
    [][(Projected /\ ~Fits) =>
          /\ Zout'.status = "error"
          /\ Zout'.error = "DimensionMismatch"]_vars

\* C16: for V of shape (n, d), mu of length d and components of shape
\* (k, d), project returns Z of shape (n, k) with
\* Z[i][j] = sum over c of (V[i][c] - mu[c]) * components[j][c], for every mu
\* (zero or not), and leaves V and the model as they were.
C16_ProjectPure ==
    [][(Projected /\ Fits) =>
          /\ Zout'.status = "ok"
          /\ Zout'.Z.r = Vin.r
          /\ Zout'.Z.c = Len(model.components.v)
          /\ \A i \in 1..Vin.r, j \in 1..Len(model.components.v) :
                Zout'.Z.e[i, j] = Zout'.Z.q * Projection(Vin, model, i, j)
          /\ Vin' = Vin
          /\ model' = model]_vars

\* two rows projected on two components by a model whose mu is not zero
C16_Witness ==
    /\ Zout.status = "ok"
    /\ Fits
    /\ Vin.r = 2
    /\ Len(model.components.v) = 2
    /\ \E c \in 1..Vin.c : model.mu.v[c] # 0
    /\ \A i, j \in 1..2 :
          /\ Zout.Z.e[i, j] = Zout.Z.q * Projection(Vin, model, i, j)
          /\ Zout.Z.e[i, j] # 0

-----------------------------------------------------------------------------
(* Properties of fit_svd *)

Fitted == fitOut.status # "none"
ValidK == fitIn.k >= 1 /\ fitIn.k <= Min(fitIn.n, fitIn.d)

\* C6: with method="auto" the branch run is "randomized" when rows > 10000
\* or columns > 1000, else "incremental" when rows > 2000, else "truncated"
\* (10000, 1000 and 2000 themselves take the lower branch); an explicit
\* method runs the branch it names for every shape.
C6_MethodSelection ==
    Fitted =>
        /\ fitIn.method # "auto" => fitOut.path = fitIn.method
        /\ fitIn.method = "auto" =>
              /\ fitOut.path = "randomized"
                    <=> (fitIn.n > 10000 \/ fitIn.d > 1000)
              /\ fitOut.path = "incremental"
                    <=> (~(fitIn.n > 10000 \/ fitIn.d > 1000) /\ fitIn.n > 2000)
              /\ fitOut.path = "truncated"
                    <=> (fitIn.n <= 2000 /\ fitIn.d <= 1000)

\* automatic selection exactly on the row and column boundaries
C6_Witness ==
    /\ fitOut.status = "ok"
    /\ fitIn.method = "auto"
    /\ fitIn.n = 2000
    /\ fitIn.d = 1000
    /\ fitOut.path = "truncated"

C11_InvalidInputRejected ==
    (pc # "start" /\ (X.r = 0 \/ X.c = 0 \/ NonFinite(X))) =>
        /\ proj.status = "error"
        /\ proj.error = "InvalidInput"

\* C13: an energy ratio that deviates from 1.0 by more than 0.01 is a hard
\* failure, ConsistencyCheckFailed: it is neither returned by energy_split
\* nor written to the energy report.
C13_DeviationIsFailure ==
    pc = "done" =>
        IF energy.status = "ok"
        THEN NearOne(energy.ratio) /\ NearOne(energy.er.energy_split)
        ELSE energy.error = "ConsistencyCheckFailed"

-----------------------------------------------------------------------------
(* Properties of compute_qstudy_vectors *)

\* the value of an aggregate of the record
Feature(df, a) == df.feats[[name |-> a, i |-> -1]]

\* C21: for Z of shape (n, k) the result is one record whose keys are the
\* four aggregates and comp{i}_mean, comp{i}_std, comp{i}_tail for exactly
\* i = 0 .. min(6, k) - 1: 4 + 3 * min(6, k) keys, none for i >= 6; energy
\* is the mean over the rows of the squared L2 norm.
C21_BoundedSchema ==
    feats.status = "ok" =>
        LET df == feats.df
            keys == DOMAIN df.feats
            m == IF Zq.c < 6 THEN Zq.c ELSE 6
        IN /\ df.rows = 1
           /\ Cardinality(keys) = 4 + 3 * m
           /\ {f.name : f \in {g \in keys : g.i = -1}}
                 = {"mean_absV", "std_mean", "frac_tail_mean", "energy"}
           /\ \A f \in keys : f.i # -1 =>
                 f.name \in {"mean", "std", "tail"} /\ f.i >= 0 /\ f.i < m
           /\ \A i \in 0..(m - 1), c \in {"mean", "std", "tail"} :
                 [name |-> c, i |-> i] \in keys
           /\ Feature(df, "energy").num
                 = SumFn([i \in 1..Zq.r |-> RowSqNum(Zq, i)], Zq.r)
           /\ Feature(df, "energy").den = Zq.r * Zq.q * Zq.q

\* a record for seven dimensions: six of them reported, 22 keys
C21_Witness ==
    /\ feats.status = "ok"
    /\ Zq.c = 7
    /\ Zq.r = 3
    /\ Cardinality(DOMAIN feats.df.feats) = 22
    /\ Feature(feats.df, "energy").num > 0

\* the tail fraction is a number of [0, 1], and not below the one of the
\* matrix before its columns were rescaled
InUnitAndNotBelowBase ==
    LET ft == Feature(feats.df, "frac_tail_mean") IN
    /\ ft.den > 0
    /\ 0 <= ft.num
    /\ ft.num <= ft.den
    /\ \A t \in DOMAIN feats.base :
          ft.num * Feature(feats.base[t], "frac_tail_mean").den
             >= Feature(feats.base[t], "frac_tail_mean").num * ft.den

\* C22: for Z with at least one row and at least one column,
\* frac_tail_mean lies in [0, 1], and it does not decrease when one column
\* of Z is multiplied by c and every other column by 1 / c (c = 10, 100).
C22_TailFraction ==
    (feats.status = "ok" /\ Zq.c >= 1) => InUnitAndNotBelowBase

\* C22 as stated, for every Z with at least one row: it fails for a Z
\* without columns, whose frac_tail_mean is NaN
C22_TailFractionAnyWidth ==
    feats.status = "ok" => InUnitAndNotBelowBase

\* a rescaled matrix of three rows whose tail fraction is strictly inside
\* the interval
C22_Witness ==
    /\ feats.status = "ok"
    /\ feats.base # << >>
    /\ Zq.r = 3
    /\ Zq.q = 100
    /\ Feature(feats.df, "frac_tail_mean").num > 0
    /\ Feature(feats.df, "frac_tail_mean").num
          < Feature(feats.df, "frac_tail_mean").den

\* C23: on every method path of fit_svd, explained_var is non-negative and
\* non-increasing, and the rows of components are orthonormal and ordered
\* by decreasing captured variance.
C23_OrderedModel ==
    fitted.status = "ok" =>
        LET ev == fitted.model.explained_var
            comps == fitted.model.components
            K == Len(comps)
        IN /\ \A i \in 1..K : ev[i].den > 0 /\ ev[i].num >= 0
           /\ \A i \in 1..(K - 1) :
                 ev[i].num * ev[i + 1].den >= ev[i + 1].num * ev[i].den
           /\ \A i, j \in 1..K :
                 Dot(comps[i], comps[j], Vn.c)
                    = IF i = j THEN UnitDen * UnitDen ELSE 0

\* the call of caller c is over
Over(c) == calls[c].pc \in {"returned", "raised"}

\* C24: two fit_svd calls on different inputs that run interleaved end as
\* each would on its own (the same model or the same error), and the
\* outcome of a call that is over is not changed by a step of the other.
C24_StatelessCalls ==
    /\ [](\A c \in DOMAIN calls :
            Over(c) => calls[c].result
                         = fit_svd(calls[c].args.n, calls[c].args.d,
                                   calls[c].args.k, calls[c].args.method))
    /\ [][\A c \in DOMAIN calls : Over(c) => calls'[c] = calls[c]]_vars

\* both calls returned models, of different shapes
C24_Witness ==
    /\ calls # None
    /\ \A c \in DOMAIN calls : calls[c].pc = "returned"
    /\ calls[1].result.model.components_shape
          # calls[2].result.model.components_shape

-----------------------------------------------------------------------------
(* Properties of a run of fargate_processor.py *)

\* the object was stored under the key
Stored(key) == \E i \in DOMAIN run.stored : run.stored[i] = key

\* the result files a manifest lists
ResultFiles == {"Q_keep.csv", "Q_discard.csv", "Q_study.json", "er.json"}

\* MANIFEST.json is the last object stored, after all it lists
ManifestLast ==
    Stored("MANIFEST.json") =>
        /\ run.stored[Len(run.stored)] = "MANIFEST.json"
        /\ run.manifest.status = "completed"
        /\ run.manifest.files = ResultFiles
        /\ \A f \in run.manifest.files :
              \E i \in 1..(Len(run.stored) - 1) : run.stored[i] = f
        /\ run.raised = ""

\* a step of the run raised and the run is over
RunFailed ==
    run.pc \in {"main_except", "done"} /\ run.raised \notin {"", "main"}

\* no run leaves both markers; a failed run ends main with code 1 and
\* without a notification
FailureIsFinal ==
    /\ ~(Stored("MANIFEST.json") /\ Stored("ERROR.json"))
    /\ RunFailed => ~Stored("MANIFEST.json")
    /\ (RunFailed /\ run.pc = "done") => run.exit = 1 /\ ~run.notified

\* C26: MANIFEST.json (status completed) is the last object stored, after
\* every result file it lists.  A run in which a step inside the try block
\* raises stores ERROR.json unless storing it fails; a run that raises
\* reading ARCHIVE_BUCKET or ARTIFACTS_BUCKET stores nothing.  A failed run
\* never stores MANIFEST.json, no run leaves both, and main then exits
\* with code 1 without a completion notification.
C26_OutcomeMarker ==
    /\ ManifestLast
    /\ FailureIsFinal
    /\ RunFailed =>
          (Stored("ERROR.json")
             <=> (run.raised # "buckets" /\ run.errorPut # "failed"))

\* C26 as stated: every run in which a step raises stores ERROR.json
C26_EveryFailureMarked ==
    /\ ManifestLast
    /\ FailureIsFinal
    /\ RunFailed => Stored("ERROR.json")

\* a run that failed after storing a result file: ERROR.json next to
\* Q_study.json, exit code 1
C26_Witness ==
    /\ run.pc = "done"
    /\ Stored("Q_study.json")
    /\ Stored("ERROR.json")
    /\ run.exit = 1

\* the input is valid and nothing outside the program fails
ValidRun ==
    /\ run.unset = {}
    /\ run.ftype \in {".csv", ".parquet"}
    /\ run.data = "rows"
    /\ run.error # "ClientError"
    /\ run.errorPut # "failed"

\* C27: for valid input in mode enhanced or full the run carries out the
\* SVD step, stores svd_model.json and returns a manifest with status
\* completed and svd_analysis = true; in mode standard the step is skipped
\* and svd_analysis is false.
C27_EnhancedCompletes ==
    (run.pc = "done" /\ ValidRun) =>
        IF run.mode \in {"enhanced", "full"}
        THEN /\ run.svd = "ok"
             /\ Stored("svd_model.json")
             /\ run.manifest # None
             /\ run.manifest.status = "completed"
             /\ run.manifest.svd_analysis
             /\ run.exit = 0
        ELSE /\ run.svd = "skipped"
             /\ ~Stored("svd_model.json")
             /\ run.manifest # None
             /\ run.manifest.status = "completed"
             /\ ~run.manifest.svd_analysis

-----------------------------------------------------------------------------
(* Properties of lambda_handler *)

\* C28: the tasks started are one per record, in record order, whatever
\* the processing_mode; the handler answers 200 only when a task was
\* started for every record, with count = number of records; when
\* parsing or launching fails at a record it answers 500, the tasks of
\* the earlier records stay started and no later record is processed.
C28_OneTaskPerRecord ==
    /\ \A j \in DOMAIN orch.ecs :
          /\ orch.ecs[j].record = j
          /\ orch.records[j].body = "message"
          /\ orch.ecs[j].processing_mode
                = (IF orch.records[j].processing_mode = "" THEN "standard"
                   ELSE orch.records[j].processing_mode)
    /\ Len(orch.ecs) \in {orch.i - 1, orch.i}
    /\ orch.pc = "responded" =>
          /\ orch.response.statusCode \in {200, 500}
          /\ orch.response.statusCode = 200 =>
                /\ Len(orch.ecs) = Len(orch.records)
                /\ orch.response.count = Len(orch.records)
          /\ orch.response.statusCode = 500 =>
                /\ Len(orch.ecs) = orch.i - 1
                /\ orch.hasRecords => orch.i <= Len(orch.records)

\* three records, the second fails: one task started, answer 500, the
\* third record untouched
C28_Witness ==
    /\ orch.pc = "responded"
    /\ orch.response.statusCode = 500
    /\ Len(orch.records) = 3
    /\ orch.i = 2
    /\ Len(orch.ecs) = 1
    /\ orch.ecs[1].processing_mode = "standard"

\* C10: a call with k < 1 or k > min(rows, columns) fails with InvalidRank
\* on every branch and returns no model.
C10_InvalidRankRejected ==
    (Fitted /\ ~ValidK) =>
        /\ fitOut.status = "error"
        /\ fitOut.error = "InvalidRank"

====
